---- MODULE Spec2Model ----
(***************************************************************************)
(* VideoChat.                                                              *)
(*                                                                         *)
(* Part one: the semantic chunker of server/controllers/chunk.controller   *)
(* (chunkTranscript, and the formatting step of generateChunks).  A text   *)
(* is a sequence of one-character strings, so that trim(), split(/\s+/),   *)
(* toLowerCase(), includes() and the regular expression /[.!?]$/ are       *)
(* modelled by what they do to the characters.  Times are whole seconds.   *)
(*                                                                         *)
(* Part two: the processing pipeline: uploadVideo, the BullMQ queue        *)
(* "video-processing", the worker's processor with generateTranscript and  *)
(* generateChunks, and the queue maintenance functions cleanQueue and      *)
(* getQueueStats.  Every await of the code is one step.                    *)
(***************************************************************************)
EXTENDS Integers, Sequences, FiniteSets

VARIABLES
  segments,     \* the argument of chunkTranscript: the stored segments, sorted by start
  i,            \* the loop counter of chunkTranscript (segments handled so far)
  chunks,       \* const chunks
  bufferText,   \* let bufferText
  bufferStart,  \* let bufferStart
  bufferEnd,    \* let bufferEnd
  wordCount,    \* let wordCount
  pc,           \* "loop" | "done": the position in chunkTranscript
  bufferSegs,   \* history: the indices of the segments pushed to bufferText
  chunkSegs,    \* history: for every chunk pushed, the indices it was built from
  videos,       \* the Video collection: the status of every video id
  transcripts,  \* the Transcript collection, in insertion order
  chunkDocs,    \* the Chunk collection, in insertion order
  jobs,         \* the jobs of the queue "video-processing"
  worker,       \* every worker process: its position in the processor and its locals
  stats,        \* the call of getQueueStats in progress
  cleaner,      \* the call of cleanQueue in progress
  crashes,      \* history: the worker processes that have died so far
  tmpdir,       \* the files of os.tmpdir() that the transcription adapter wrote
  adapter,      \* every call of generateTranscript: its position and its locals
  summaries,    \* the Summary collection
  requests      \* every request POST /summary: its position and its locals

chunkVars == <<segments, i, chunks, bufferText, bufferStart, bufferEnd, wordCount, pc,
               bufferSegs, chunkSegs>>

dbVars == <<videos, transcripts, chunkDocs>>

sideVars == <<tmpdir, adapter, summaries, requests>>

pipeVars == <<videos, transcripts, chunkDocs, jobs, worker, stats, cleaner, crashes,
              sideVars>>

vars == <<chunkVars, pipeVars>>

----------------------------------------------------------------------------
(* Program constants *)

MIN_WORDS == 80
MAX_WORDS == 140
PAUSE_THRESHOLD == 2

\* "now let's", "moving on", "next we", "next we will", "so basically",
\* "in summary", "let's talk about", "to conclude"
TOPIC_PHRASES ==
  { <<"n","o","w"," ","l","e","t","'","s">>,
    <<"m","o","v","i","n","g"," ","o","n">>,
    <<"n","e","x","t"," ","w","e">>,
    <<"n","e","x","t"," ","w","e"," ","w","i","l","l">>,
    <<"s","o"," ","b","a","s","i","c","a","l","l","y">>,
    <<"i","n"," ","s","u","m","m","a","r","y">>,
    <<"l","e","t","'","s"," ","t","a","l","k"," ","a","b","o","u","t">>,
    <<"t","o"," ","c","o","n","c","l","u","d","e">> }

\* JavaScript's null, and a value that is not null
NULL == <<>>
Some(x) == <<x>>

----------------------------------------------------------------------------
(* String primitives of the JavaScript runtime, on sequences of characters *)

\* the characters \s matches and trim() strips, among those of the model
Whitespace == {" ", "\t"}

\* String.prototype.trim
Trim(s) ==
  IF \A k \in 1..Len(s) : s[k] \in Whitespace THEN <<>>
  ELSE LET first == CHOOSE k \in 1..Len(s) :
                      s[k] \notin Whitespace /\ \A j \in 1..(k-1) : s[j] \in Whitespace
           last  == CHOOSE k \in 1..Len(s) :
                      s[k] \notin Whitespace /\ \A j \in (k+1)..Len(s) : s[j] \in Whitespace
       IN SubSeq(s, first, last)

\* String.prototype.split(/\s+/).length: one piece more than there are
\* maximal runs of whitespace (the empty string splits into one empty piece)
SplitLength(s) ==
  Cardinality({k \in 1..Len(s) :
                 s[k] \in Whitespace /\ (k = 1 \/ s[k-1] \notin Whitespace)}) + 1

\* the lower-case form of every upper-case letter
LowerOf ==
  [A |-> "a", B |-> "b", C |-> "c", D |-> "d", E |-> "e", F |-> "f", G |-> "g",
   H |-> "h", I |-> "i", J |-> "j", K |-> "k", L |-> "l", M |-> "m", N |-> "n",
   O |-> "o", P |-> "p", Q |-> "q", R |-> "r", S |-> "s", T |-> "t", U |-> "u",
   V |-> "v", W |-> "w", X |-> "x", Y |-> "y", Z |-> "z"]

\* String.prototype.toLowerCase
ToLowerCase(s) ==
  [k \in 1..Len(s) |-> IF s[k] \in DOMAIN LowerOf THEN LowerOf[s[k]] ELSE s[k]]

\* String.prototype.includes
Includes(s, p) ==
  \E k \in 0..(Len(s) - Len(p)) : \A j \in 1..Len(p) : s[k + j] = p[j]

\* Array.prototype.join(" ")
RECURSIVE Join(_)
Join(texts) ==
  IF texts = <<>> THEN <<>>
  ELSE IF Len(texts) = 1 THEN texts[1]
  ELSE Join(SubSeq(texts, 1, Len(texts) - 1)) \o <<" ">> \o texts[Len(texts)]

----------------------------------------------------------------------------
(* chunkTranscript *)

containsTopicShift(text) ==
  LET lower == ToLowerCase(text)
  IN \E phrase \in TOPIC_PHRASES : Includes(lower, phrase)

\* const words = seg.text.trim().split(/\s+/).length
Words(seg) == SplitLength(Trim(seg.text))

\* a variant in which a gap of exactly the threshold counts
LongPause_AtThreshold(segs, n) ==
  /\ n + 1 <= Len(segs)
  /\ segs[n + 1].start - segs[n].end >= PAUSE_THRESHOLD

\* const longPause = nextSeg && nextSeg.start - seg.end > PAUSE_THRESHOLD
LongPause(segs, n) ==
  /\ n + 1 <= Len(segs)
  /\ segs[n + 1].start - segs[n].end > PAUSE_THRESHOLD

\* const sentenceEnd = /[.!?]$/.test(seg.text.trim())
SentenceEnd(seg) ==
  LET t == Trim(seg.text)
  IN Len(t) > 0 /\ t[Len(t)] \in {".", "!", "?"}

\* a variant that forces a split only above the maximum
ShouldSplit_StrictMax(wc, longPause, topicShift, sentenceEnd) ==
  \/ wc > MAX_WORDS
  \/ wc >= MIN_WORDS /\ (longPause \/ topicShift \/ sentenceEnd)

\* shouldSplit with the minimum compared by > (mutant)
ShouldSplit_StrictMin(wc, longPause, topicShift, sentenceEnd) ==
  \/ wc >= MAX_WORDS
  \/ (wc > MIN_WORDS /\ (longPause \/ topicShift \/ sentenceEnd))

\* shouldSplit with the minimum forgotten (mutant)
ShouldSplit_NoMin(wc, longPause, topicShift, sentenceEnd) ==
  \/ wc >= MAX_WORDS
  \/ (longPause \/ topicShift \/ sentenceEnd)

\* shouldSplit with the maximum forgotten (mutant)
ShouldSplit_NoMax(wc, longPause, topicShift, sentenceEnd) ==
  wc >= MIN_WORDS /\ (longPause \/ topicShift \/ sentenceEnd)

\* const shouldSplit = wordCount >= MAX_WORDS ||
\*   (wordCount >= MIN_WORDS && (longPause || topicShift || sentenceEnd))
ShouldSplit(wc, longPause, topicShift, sentenceEnd) ==
  \/ wc >= MAX_WORDS
  \/ (wc >= MIN_WORDS /\ (longPause \/ topicShift \/ sentenceEnd))

\* the buffer updates with bufferStart assigned in every iteration (mutant)
Accumulate_OverwritesStart(st, seg, n) ==
  [st EXCEPT
     !.bufferStart = Some(seg.start),
     !.bufferText  = Append(@, Trim(seg.text)),
     !.bufferEnd   = Some(seg.end),
     !.wordCount   = @ + SplitLength(Trim(seg.text)),
     !.bufferSegs  = Append(@, n)]

\* the buffer updates with the text pushed untrimmed (mutant)
Accumulate_Untrimmed(st, seg, n) ==
  [st EXCEPT
     !.bufferStart = IF st.bufferStart = NULL THEN Some(seg.start) ELSE @,
     !.bufferText  = Append(@, seg.text),
     !.bufferEnd   = Some(seg.end),
     !.wordCount   = @ + SplitLength(Trim(seg.text)),
     !.bufferSegs  = Append(@, n)]

\* lines 41-47: the buffer updates of one iteration, on the loop state st, for
\* segment n (bufferSegs follows bufferText)
Accumulate(st, seg, n) ==
  [st EXCEPT
     !.bufferStart = IF st.bufferStart = NULL THEN Some(seg.start) ELSE @,
     !.bufferText  = Append(@, Trim(seg.text)),
     !.bufferEnd   = Some(seg.end),
     !.wordCount   = @ + Words(seg),
     !.bufferSegs  = Append(@, n)]

\* the push with start and end taken from each other's variable (mutant)
PushChunk_Swapped(st) ==
  [st EXCEPT
     !.chunks    = Append(@, [start     |-> st.bufferEnd[1],
                              end       |-> st.bufferStart[1],
                              text      |-> Join(st.bufferText),
                              wordCount |-> st.wordCount]),
     !.chunkSegs = Append(@, st.bufferSegs)]

\* chunks.push({ start: bufferStart, end: bufferEnd, text: bufferText.join(" "), wordCount })
\* (chunkSegs follows chunks)
PushChunk(st) ==
  [st EXCEPT
     !.chunks    = Append(@, [start     |-> st.bufferStart[1],
                              end       |-> st.bufferEnd[1],
                              text      |-> Join(st.bufferText),
                              wordCount |-> st.wordCount]),
     !.chunkSegs = Append(@, st.bufferSegs)]

\* the reset of the word count alone, the buffer kept (mutant)
ResetBuffer_CountOnly(st) ==
  [st EXCEPT !.wordCount = 0]

\* // reset
ResetBuffer(st) ==
  [st EXCEPT
     !.bufferText  = <<>>,
     !.bufferStart = NULL,
     !.bufferEnd   = NULL,
     !.wordCount   = 0,
     !.bufferSegs  = <<>>]

\* the body of the for loop, for segment n of segs
LoopBody(st, segs, n) ==
  LET seg == segs[n]
      acc == Accumulate(st, seg, n)
  IN IF ShouldSplit(acc.wordCount, LongPause(segs, n),
                    containsTopicShift(seg.text), SentenceEnd(seg))
       THEN ResetBuffer(PushChunk(acc))
       ELSE acc

\* the flush kept for a buffer that has reached the minimum only (mutant)
FlushRemaining_DropsShort(st) ==
  IF Len(st.bufferText) > 0 /\ st.wordCount >= MIN_WORDS THEN
    [st EXCEPT
       !.chunks    = Append(@, [start     |-> st.bufferStart[1],
                                end       |-> st.bufferEnd[1],
                                text      |-> Join(st.bufferText),
                                wordCount |-> st.wordCount]),
       !.chunkSegs = Append(@, st.bufferSegs)]
  ELSE st

\* // Flush remaining buffer
FlushRemaining(st) ==
  IF Len(st.bufferText) > 0 THEN PushChunk(st) ELSE st

\* the locals of chunkTranscript before the loop
InitialLoopState ==
  [chunks |-> <<>>, bufferText |-> <<>>, bufferStart |-> NULL, bufferEnd |-> NULL,
   wordCount |-> 0, bufferSegs |-> <<>>, chunkSegs |-> <<>>]

RECURSIVE LoopFrom(_, _, _)
LoopFrom(st, segs, n) ==
  IF n > Len(segs) THEN st ELSE LoopFrom(LoopBody(st, segs, n), segs, n + 1)

\* the value chunkTranscript returns
chunkTranscript(segs) == FlushRemaining(LoopFrom(InitialLoopState, segs, 1)).chunks

\* generateChunks: const chunks = chunked.map(chunk => ({ videoId, start, end, text: chunk.text.trim() }))
ChunkDocs(chunked) ==
  [k \in 1..Len(chunked) |->
     [start |-> chunked[k].start, end |-> chunked[k].end, text |-> Trim(chunked[k].text)]]

----------------------------------------------------------------------------
(* The transcripts the chunker is run on: what Transcript.find({ videoId })   *)
(* .sort({ start: 1 }) can return.  The stored texts are non-empty after     *)
(* trimming (generateTranscript filters the others out); start and end are   *)
(* whatever the speech-to-text provider returned, so segments may overlap.   *)

MaxSegs == 3

\* n words "a", single spaces between them
Rep(n) == [k \in 1..(2 * n - 1) |-> IF k % 2 = 1 THEN "a" ELSE " "]

Plain40 == Rep(40)
Plain79 == Rep(79)
Plain80 == Rep(80)
\* 60 words starting "Moving ON", with a run of a space and a tab inside
Topic60 == <<"M","o","v","i","n","g"," ","O","N"," ">> \o Rep(28) \o <<" ", "\t">> \o Rep(30)
\* one word ending a sentence, padded on both sides
Short   == <<" ", "O", "k", "!", "\t">>

TextLib == {Plain40, Plain79, Plain80, Topic60, Short}

\* a segment starts ds seconds after the start of the one before and lasts dur:
\* the first after the first leaves a gap of 2 s, the first after the second a gap
\* of 3 s, and the second starts with the segment before it and ends earlier
Timings == { [ds |-> 4, dur |-> 2], [ds |-> 0, dur |-> 1] }

\* the transcript that takes, for its k-th segment, timing sel[k][1] and text sel[k][2]
RECURSIVE BuildInput(_)
BuildInput(sel) ==
  IF sel = <<>> THEN <<>>
  ELSE LET p    == BuildInput(SubSeq(sel, 1, Len(sel) - 1))
           tm   == sel[Len(sel)][1]
           prev == IF p = <<>> THEN 0 ELSE p[Len(p)].start
       IN Append(p, [start |-> prev + tm.ds,
                     end   |-> prev + tm.ds + tm.dur,
                     text  |-> sel[Len(sel)][2]])

----------------------------------------------------------------------------
(* The pipeline: identifiers, documents and the initial state *)

\* the ids of the Video documents while the pipeline runs
Vids == {1}

\* job.data without a videoId
NoVideoId == 0

\* the ids of the jobs the queue is given while the pipeline runs
JobIds == {1}

\* the worker processes that may die while the model runs
MaxCrashes == 1

NoJobId == 0

\* the worker processes started on the queue
Workers == {"w1", "w2"}

NoWorker == "none"

\* BullMQ's worker option maxStalledCount, left at its default by startWorker
MaxStalledCount == 1

NoJob ==
  [state |-> "none", name |-> "", videoId |-> NoVideoId, lock |-> NoWorker, stalled |-> 0,
   attempts |-> 0, failedReason |-> "", crashedAt |-> "none", resolved |-> 0]

IdleWorker ==
  [pc |-> "idle", job |-> NoJobId, videoId |-> NoVideoId, err |-> "",
   segs |-> <<>>, docs |-> <<>>, statusWrite |-> "none", stages |-> <<>>,
   overlapped |-> FALSE]

\* instants (history): the counts the queue has had since the call began
IdleStats ==
  [pc |-> "idle", waiting |-> 0, active |-> 0, completed |-> 0, failed |-> 0,
   total |-> 0, instants |-> {}]

\* before (history): the state of every job when the call began; enqueued
\* (history): a job has been added since the call began
IdleCleaner ==
  [pc |-> "idle", removeFailed |-> FALSE, removeCompleted |-> FALSE,
   before |-> <<>>, enqueued |-> FALSE]

\* what the speech-to-text provider returns: typed says that start and end are
\* numbers and text is a string
Raw(start, end, text, typed) ==
  [start |-> start, end |-> end, text |-> text, typed |-> typed]

RawA == Raw(0, 1, Short, TRUE)

RawB == Raw(4, 6, <<"g", "o", " ">>, TRUE)

RawBlank == Raw(2, 3, <<" ">>, TRUE)

RawUntyped == Raw(2, 3, <<"x">>, FALSE)

ProviderOutputs ==
  {<<>>, <<RawBlank, RawUntyped>>, <<RawA>>, <<RawB, RawBlank, RawA>>}

RECURSIVE Filter(_, _)
Filter(s, keep) ==
  IF s = <<>> THEN <<>>
  ELSE IF Head(s) \in keep THEN <<Head(s)>> \o Filter(Tail(s), keep)
       ELSE Filter(Tail(s), keep)

Range(s) == {s[k] : k \in DOMAIN s}

\* a variant of the filter without the typeof tests
processSegments_AnyType(whisperSegments) ==
  LET valid == Filter(whisperSegments,
                      {seg \in Range(whisperSegments) : Len(Trim(seg.text)) > 0})
  IN [k \in DOMAIN valid |->
        [start |-> valid[k].start, end |-> valid[k].end,
         text |-> Trim(valid[k].text)]]

\* processSegments
processSegments(whisperSegments) ==
  LET valid == Filter(whisperSegments,
                      {seg \in Range(whisperSegments) :
                         seg.typed /\ Len(Trim(seg.text)) > 0})
  IN [k \in DOMAIN valid |->
        [start |-> valid[k].start, end |-> valid[k].end,
         text |-> Trim(valid[k].text)]]

\* the documents generateTranscript builds from the segments
TranscriptDocs(videoId, segs) ==
  LET valid == Filter(segs, {seg \in Range(segs) : Len(Trim(seg.text)) > 0})
  IN [k \in DOMAIN valid |->
        [videoId |-> videoId, start |-> valid[k].start, end |-> valid[k].end,
         text |-> Trim(valid[k].text)]]

\* Model.deleteMany({ videoId })
DeleteMany_Nothing(collection, videoId) == collection

\* a variant whose filter matches the documents of every video
DeleteMany_All(collection, videoId) == <<>>

DeleteMany(collection, videoId) ==
  Filter(collection, {d \in Range(collection) : d.videoId # videoId})

\* Model.insertMany(docs)
InsertMany(collection, docs) == collection \o docs

\* Transcript.find({ videoId }).sort({ start: 1 }): every order of the
\* documents of the video that is sorted by start
SortedFind(collection, videoId) ==
  LET found == Filter(collection,
                      {d \in Range(collection) : d.videoId = videoId})
      n == Len(found)
  IN {[k \in 1..n |-> found[p[k]]] :
        p \in {q \in [1..n -> 1..n] :
                 /\ \A a, b \in 1..n : a # b => q[a] # q[b]
                 /\ \A a, b \in 1..n :
                      a < b => found[q[a]].start <= found[q[b]].start}}

\* the documents generateChunks builds from the result of chunkTranscript
ChunkDocsOf(videoId, chunked) ==
  LET formatted == ChunkDocs(chunked)
  IN [k \in DOMAIN formatted |->
        [videoId |-> videoId, start |-> formatted[k].start,
         end |-> formatted[k].end, text |-> formatted[k].text]]

\* no call of generateTranscript and no request for a summary is in progress,
\* and neither has left anything behind
SideIdle ==
  /\ tmpdir = {}
  /\ adapter = <<>>
  /\ summaries = {}
  /\ requests = <<>>

\* nothing uploaded, nothing queued, nobody running
PipeIdle ==
  /\ SideIdle
  /\ videos = [v \in Vids |-> "none"]
  /\ transcripts = <<>>
  /\ chunkDocs = <<>>
  /\ jobs = [j \in JobIds |-> NoJob]
  /\ worker = [w \in Workers |-> IdleWorker]
  /\ stats = IdleStats
  /\ cleaner = IdleCleaner
  /\ crashes = 0

----------------------------------------------------------------------------
(* The state machine: one run of chunkTranscript on a stored transcript *)

LoopState ==
  [chunks |-> chunks, bufferText |-> bufferText, bufferStart |-> bufferStart,
   bufferEnd |-> bufferEnd, wordCount |-> wordCount,
   bufferSegs |-> bufferSegs, chunkSegs |-> chunkSegs]

SetLoopState(st) ==
  /\ chunks' = st.chunks
  /\ bufferText' = st.bufferText
  /\ bufferStart' = st.bufferStart
  /\ bufferEnd' = st.bufferEnd
  /\ wordCount' = st.wordCount
  /\ bufferSegs' = st.bufferSegs
  /\ chunkSegs' = st.chunkSegs

ChunkInit ==
  /\ \E n \in 0..MaxSegs : \E sel \in [1..n -> Timings \X TextLib] :
       segments = BuildInput(sel)
  /\ i = 0
  /\ chunks = <<>>
  /\ bufferText = <<>>
  /\ bufferStart = NULL
  /\ bufferEnd = NULL
  /\ wordCount = 0
  /\ pc = "loop"
  /\ bufferSegs = <<>>
  /\ chunkSegs = <<>>
  /\ PipeIdle

\* one iteration of the for loop
LoopIteration ==
  /\ pc = "loop"
  /\ i < Len(segments)
  /\ SetLoopState(LoopBody(LoopState, segments, i + 1))
  /\ i' = i + 1
  /\ UNCHANGED <<segments, pc, pipeVars>>

\* the loop has ended: flush and return
FlushAndReturn ==
  /\ pc = "loop"
  /\ i = Len(segments)
  /\ SetLoopState(FlushRemaining(LoopState))
  /\ pc' = "done"
  /\ UNCHANGED <<segments, i, pipeVars>>

ChunkNext == LoopIteration \/ FlushAndReturn

ChunkSpec == ChunkInit /\ [][ChunkNext]_vars

----------------------------------------------------------------------------
(* Vocabulary of the properties, defined on the characters without the      *)
(* operators of the chunker                                                 *)

\* the number of whitespace-delimited tokens of a text
TokenCount(s) ==
  Cardinality({k \in 1..Len(s) :
                 s[k] \notin Whitespace /\ (k = 1 \/ s[k-1] \in Whitespace)})

RECURSIVE Flatten(_)
Flatten(seqs) ==
  IF seqs = <<>> THEN <<>> ELSE Flatten(SubSeq(seqs, 1, Len(seqs) - 1)) \o seqs[Len(seqs)]

RECURSIVE SumTokens(_, _)
\* the tokens of segments idx[1], idx[2], ... of segs together
SumTokens(segs, idx) ==
  IF idx = <<>> THEN 0
  ELSE SumTokens(segs, SubSeq(idx, 1, Len(idx) - 1)) + TokenCount(segs[idx[Len(idx)]].text)

\* the last character of s that is not whitespace is one of ends
EndsWithOneOf(s, ends) ==
  \E k \in 1..Len(s) :
    /\ s[k] \in ends
    /\ \A j \in (k+1)..Len(s) : s[j] \in Whitespace

\* a and b are the same character up to the case of a letter
SameIgnoringCase(a, b) ==
  \/ a = b
  \/ a \in DOMAIN LowerOf /\ LowerOf[a] = b
  \/ b \in DOMAIN LowerOf /\ LowerOf[b] = a

ContainsIgnoringCase(s, p) ==
  \E k \in 0..(Len(s) - Len(p)) : \A j \in 1..Len(p) : SameIgnoringCase(s[k + j], p[j])

\* the constituent segments of chunk c, as indices into segments
Constituents(c) == chunkSegs[c]
LastOf(idx) == idx[Len(idx)]

\* the trimmed texts of segments idx[1], idx[2], ...
TrimmedTexts(segs, idx) == [k \in 1..Len(idx) |-> Trim(segs[idx[k]].text)]

----------------------------------------------------------------------------
(* Properties of chunkTranscript *)

\* C1: chunkTranscript partitions its input: when it returns, the chunks'
\* constituent segments, taken chunk after chunk, are exactly segments
\* 1, 2, ..., n in input order (every segment in exactly one chunk, every chunk a
\* run of consecutive segments, the counts summing to n), and every chunk's
\* text is made of exactly its constituents' texts.
C1_Partition ==
  pc = "done" =>
    /\ Len(chunkSegs) = Len(chunks)
    /\ Flatten(chunkSegs) = [k \in 1..Len(segments) |-> k]
    /\ \A c \in 1..Len(chunks) :
         chunks[c].text = Join(TrimmedTexts(segments, Constituents(c)))

C1_Witness ==
  /\ pc = "done"
  /\ Len(segments) = 3
  /\ Len(chunks) = 2
  /\ Len(Constituents(1)) = 2

\* C2: in every iteration of the loop, a chunk is pushed right after segment n
\* if and only if W >= 140, or W >= 80 and (a next segment exists and starts more
\* than 2 s after n ends, or n's text contains a topic phrase in any letter case,
\* or n's trimmed text ends with '.', '!' or '?'), W being the tokens of the
\* buffered segments and of n; and after a push the buffer is empty and its
\* word count 0, the chunk pushed carrying W.
C2_SplitRule ==
  [][ (pc = "loop" /\ i' = i + 1) =>
        LET n == i + 1
            W == SumTokens(segments, bufferSegs) + TokenCount(segments[n].text)
            pause == n < Len(segments) /\ segments[n + 1].start - segments[n].end > 2
            topic == \E p \in TOPIC_PHRASES : ContainsIgnoringCase(segments[n].text, p)
            sentence == EndsWithOneOf(segments[n].text, {".", "!", "?"})
            boundary == W >= 140 \/ (W >= 80 /\ (pause \/ topic \/ sentence))
        IN /\ boundary => /\ Len(chunks') = Len(chunks) + 1
                          /\ chunks'[Len(chunks')].wordCount = W
                          /\ bufferText' = <<>>
                          /\ bufferStart' = NULL
                          /\ bufferEnd' = NULL
                          /\ wordCount' = 0
           /\ ~boundary => /\ chunks' = chunks
                           /\ Len(bufferText') = Len(bufferText) + 1
                           /\ wordCount' = W ]_vars

\* a boundary placed below the maximum, by a long pause alone, with input left
C2_Witness ==
  /\ pc = "loop"
  /\ 0 < i /\ i < Len(segments)
  /\ Len(chunks) = 1
  /\ bufferText = <<>>
  /\ chunks[1].wordCount < 140
  /\ segments[i + 1].start - segments[i].end > 2
  /\ ~EndsWithOneOf(segments[i].text, {".", "!", "?"})
  /\ \A p \in TOPIC_PHRASES : ~ContainsIgnoringCase(segments[i].text, p)

\* C3: every chunk but possibly the last one returned has at least 80 words
\* (counted in its text, and as its wordCount says).
C3_NonFinalAtLeastMin ==
  \A c \in 1..Len(chunks) :
    (c < Len(chunks) \/ pc = "loop") =>
      /\ TokenCount(chunks[c].text) >= 80
      /\ chunks[c].wordCount >= 80

\* a last chunk under 80 words after a chunk that is not
C3_Witness ==
  /\ pc = "done"
  /\ Len(chunks) >= 2
  /\ TokenCount(chunks[Len(chunks)].text) < 80

\* C4: every chunk, the final one included, is under 140 words without its
\* last constituent segment.
C4_OverMaxByLastSegmentOnly ==
  \A c \in 1..Len(chunks) :
    /\ Len(chunkSegs) = Len(chunks)
    /\ Constituents(c) # <<>>
    /\ TokenCount(chunks[c].text)
         - TokenCount(segments[LastOf(Constituents(c))].text) < 140
    /\ chunks[c].wordCount
         - TokenCount(segments[LastOf(Constituents(c))].text) < 140

\* a chunk of more than 140 words made of several segments
C4_Witness ==
  /\ pc = "done"
  /\ \E c \in 1..Len(chunks) :
       TokenCount(chunks[c].text) > 140 /\ Len(Constituents(c)) >= 2

\* C5: every chunk returned has between 80 and 140 words.
C5_AllChunksBetweenMinAndMax ==
  pc = "done" =>
    \A c \in 1..Len(chunks) :
      /\ 80 <= chunks[c].wordCount
      /\ chunks[c].wordCount <= 140

\* C6 as stated: every chunk's start is the least start and its end the
\* greatest end among its constituent segments.
C6_MinStartMaxEnd ==
  pc = "done" =>
    \A c \in 1..Len(chunks) :
      LET idx == Constituents(c)
      IN /\ \E k \in 1..Len(idx) : chunks[c].start = segments[idx[k]].start
         /\ \A k \in 1..Len(idx) : chunks[c].start <= segments[idx[k]].start
         /\ \E k \in 1..Len(idx) : chunks[c].end = segments[idx[k]].end
         /\ \A k \in 1..Len(idx) : chunks[c].end >= segments[idx[k]].end

\* C6 as amended: every chunk's start is the least start among its constituent
\* segments (the start of the first of them) and its end is the end of the last
\* of them, which is the greatest end if no earlier constituent ends later.
C6_MinStartLastEnd ==
  \A c \in 1..Len(chunks) :
    LET idx == Constituents(c)
    IN /\ Len(chunkSegs) = Len(chunks)
       /\ idx # <<>>
       /\ chunks[c].start = segments[idx[1]].start
       /\ \A k \in 1..Len(idx) : chunks[c].start <= segments[idx[k]].start
       /\ chunks[c].end = segments[LastOf(idx)].end
       /\ (\A j, k \in 1..Len(idx) : j <= k => segments[idx[j]].end <= segments[idx[k]].end)
            => \A k \in 1..Len(idx) : chunks[c].end >= segments[idx[k]].end

\* a chunk one of whose constituents starts later than the chunk and another
\* ends later than the chunk
C6_Witness ==
  /\ pc = "done"
  /\ \E c \in 1..Len(chunks) :
       LET idx == Constituents(c)
       IN /\ \E k \in 1..Len(idx) : segments[idx[k]].end > chunks[c].end
          /\ \E k \in 1..Len(idx) : segments[idx[k]].start > chunks[c].start

\* C7: the chunk documents made for a video do not overlap: each ends no later
\* than the next one starts.
C7_StoredChunksDisjoint ==
  pc = "done" =>
    LET docs == ChunkDocs(chunks)
    IN \A k \in 1..(Len(docs) - 1) : docs[k].end <= docs[k + 1].start

\* C8: the chunks' start times never decrease from one chunk to the next, and
\* the first segment of a chunk comes before the first segment of the next chunk
\* in the input.
C8_StartsFollowInputOrder ==
  \A k \in 1..(Len(chunks) - 1) :
    /\ Len(chunkSegs) = Len(chunks)
    /\ chunks[k].start <= chunks[k + 1].start
    /\ Constituents(k) # <<>> /\ Constituents(k + 1) # <<>>
    /\ Constituents(k)[1] < Constituents(k + 1)[1]

\* two chunks, the second starting later than the first: the first of two
\* segments, and a segment that starts with the one before it
C8_Witness ==
  /\ pc = "done"
  /\ Len(chunks) = 2
  /\ chunks[1].start < chunks[2].start
  /\ Len(Constituents(1)) = 2
  /\ segments[3].start = segments[2].start

\* C9: for a non-empty input, the chunks' texts joined by single spaces are the
\* segments' trimmed texts joined by single spaces.
C9_TextPreserved ==
  (pc = "done" /\ segments # <<>>) =>
    Join([c \in 1..Len(chunks) |-> chunks[c].text])
      = Join([k \in 1..Len(segments) |-> Trim(segments[k].text)])

\* two chunks, the first of two segments, one segment's text with whitespace
\* around it
C9_Witness ==
  /\ pc = "done"
  /\ Len(chunks) = 2
  /\ Len(Constituents(1)) = 2
  /\ \E k \in 1..Len(segments) : Trim(segments[k].text) # segments[k].text

\* C10: no chunk is without constituent segments; on return, an empty input has
\* given no chunk and a non-empty one at least one; and what is in the buffer
\* when the input ends is the last chunk, whatever its word count.
C10_FlushAndNonEmpty ==
  /\ Len(chunkSegs) = Len(chunks)
  /\ \A c \in 1..Len(chunks) : Constituents(c) # <<>> /\ chunks[c].text # <<>>
  /\ pc = "done" =>
       /\ segments = <<>> => chunks = <<>>
       /\ segments # <<>> => Len(chunks) >= 1
       /\ bufferText # <<>> =>
            /\ chunks # <<>>
            /\ Constituents(Len(chunks)) = bufferSegs
            /\ chunks[Len(chunks)].text = Join(bufferText)
            /\ chunks[Len(chunks)].wordCount = wordCount
            /\ LastOf(bufferSegs) = Len(segments)

\* a buffer under 80 words flushed as the second chunk
C10_Witness ==
  /\ pc = "done"
  /\ bufferText # <<>>
  /\ wordCount < 80
  /\ Len(chunks) = 2

----------------------------------------------------------------------------
(* The queue "video-processing": BullMQ's transitions of a job *)

\* the id the next queue.add gets
NextJobId(q) ==
  IF \E j \in DOMAIN q : q[j].state = "none"
  THEN CHOOSE j \in DOMAIN q :
         q[j].state = "none" /\ \A k \in DOMAIN q : q[k].state = "none" => j <= k
  ELSE NoJobId

\* videoQueue.add("process-video", { videoId }): no options, so one attempt
QueueAdd(q, videoId) ==
  [q EXCEPT ![NextJobId(q)] = [NoJob EXCEPT !.state = "waiting",
                                            !.name = "process-video",
                                            !.videoId = videoId]]

\* a worker fetches the job and takes its lock
MoveToActive(q, j, w) ==
  [q EXCEPT ![j].state = "active", ![j].lock = w,
            ![j].attempts = q[j].attempts + 1]

\* a variant in which the report of the end never reaches the queue
MoveToFinished_Dropped(q, j, w, state, reason) == q

\* the worker reports the end of the processor; BullMQ refuses the report of
\* a worker that no longer holds the lock of the job
MoveToFinished(q, j, w, state, reason) ==
  IF q[j].state = "active" /\ q[j].lock = w
  THEN [q EXCEPT ![j].state = state, ![j].lock = NoWorker,
                 ![j].failedReason = reason]
  ELSE q

\* the lock of an active job has expired: back to waiting, or to failed when
\* it has stalled more than maxStalledCount times
MoveStalled(q, j) ==
  IF q[j].stalled < MaxStalledCount
  THEN [q EXCEPT ![j].state = "waiting", ![j].lock = NoWorker,
                 ![j].stalled = q[j].stalled + 1]
  ELSE [q EXCEPT ![j].state = "failed", ![j].lock = NoWorker,
                 ![j].failedReason = "job stalled more than allowable limit"]

\* videoQueue.getWaitingCount() and the like
Count(q, state) == Cardinality({j \in DOMAIN q : q[j].state = state})

Counts(q) ==
  [waiting |-> Count(q, "waiting"), active |-> Count(q, "active"),
   completed |-> Count(q, "completed"), failed |-> Count(q, "failed")]

\* history of getQueueStats: the queue has changed during the call
Observe(st, q) ==
  IF st.pc \in {"idle", "returned"} THEN st
  ELSE [st EXCEPT !.instants = @ \cup {Counts(q)}]

\* history of cleanQueue: a job has been added during the call
Noted(cl, added) ==
  IF cl.pc # "idle" /\ added THEN [cl EXCEPT !.enqueued = TRUE] ELSE cl

----------------------------------------------------------------------------
(* The processor of the worker *)

\* a variant in which generateChunks deletes before it chunks
ProcessorOrder_DeleteChunksFirst ==
  <<"begin", "findVideo", "gtFindVideo", "transcribe", "deleteTranscript",
    "insertTranscript", "deleteChunks", "findTranscript", "insertChunks",
    "markReady", "resolve">>

\* the awaits of processor, generateTranscript and generateChunks, in order
ProcessorOrder_ReadyBeforeChunks ==
  <<"begin", "findVideo", "gtFindVideo", "transcribe", "deleteTranscript",
    "insertTranscript", "markReady", "findTranscript", "deleteChunks",
    "insertChunks", "resolve">>

ProcessorOrder ==
  <<"begin", "findVideo", "gtFindVideo", "transcribe", "deleteTranscript",
    "insertTranscript", "findTranscript", "deleteChunks", "insertChunks",
    "markReady", "resolve">>

After(step) ==
  LET k == CHOOSE n \in DOMAIN ProcessorOrder : ProcessorOrder[n] = step
  IN ProcessorOrder[k + 1]

\* the step has returned: go on with the next one
Returned(wr, stage) ==
  [wr EXCEPT !.pc = After(wr.pc),
             !.stages = IF stage = "" THEN wr.stages ELSE Append(wr.stages, stage)]

\* a throw inside the try block of processor
Thrown_Unhandled(wr, err) == [wr EXCEPT !.pc = "reject", !.err = err]

Thrown(wr, err) == [wr EXCEPT !.pc = "catch", !.err = err]

\* the error the catch block rethrows
Rethrown_LastError(err, updateOk) ==
  IF updateOk THEN err ELSE "Failed to update video status"

Rethrown(err, updateOk) == err

\* a variant whose catch block puts the video back to "processing"
StatusUpdate_BackToProcessing(vs, videoId, status) ==
  IF videoId \in DOMAIN vs /\ vs[videoId] \in {"processing", "ready", "failed"}
  THEN [vs EXCEPT ![videoId] = IF status = "failed" THEN "processing" ELSE status]
  ELSE vs

\* a variant that writes the status whether or not the video is there
StatusUpdate_Upsert(vs, videoId, status) ==
  IF videoId \in DOMAIN vs THEN [vs EXCEPT ![videoId] = status] ELSE vs

\* Video.findByIdAndUpdate(videoId, { status })
StatusUpdate(vs, videoId, status) ==
  IF videoId \in DOMAIN vs /\ vs[videoId] \in {"processing", "ready", "failed"}
  THEN [vs EXCEPT ![videoId] = status]
  ELSE vs

VideoFound(videoId) ==
  videoId \in DOMAIN videos /\ videos[videoId] \in {"processing", "ready", "failed"}

Running(w) == worker[w].pc # "idle"

SetWorker(w, wr) == worker' = [worker EXCEPT ![w] = wr]

\* uploadVideo: Video.create with status "processing", then videoQueue.add;
\* when add rejects the request ends with 500 and the video stays
Upload(v) ==
  /\ videos[v] = "none"
  /\ NextJobId(jobs) # NoJobId
  /\ videos' = [videos EXCEPT ![v] = "processing"]
  /\ \E added \in BOOLEAN :
       /\ jobs' = IF added THEN QueueAdd(jobs, v) ELSE jobs
       /\ cleaner' = Noted(cleaner, added)
  /\ stats' = Observe(stats, jobs')
  /\ UNCHANGED <<chunkVars, sideVars, transcripts, chunkDocs, worker, crashes>>

\* the worker takes a waiting job and calls processor(job)
Take(w, j) ==
  /\ ~Running(w)
  /\ jobs[j].state = "waiting"
  /\ jobs' = MoveToActive(jobs, j, w)
  /\ LET overlap == \E o \in DOMAIN worker \ {w} :
                      Running(o) /\ worker[o].videoId = jobs[j].videoId
     IN worker' = [o \in DOMAIN worker |->
                     IF o = w
                     THEN [IdleWorker EXCEPT !.pc = "begin", !.job = j,
                                             !.videoId = jobs[j].videoId,
                                             !.overlapped = overlap]
                     ELSE IF Running(o) /\ worker[o].videoId = jobs[j].videoId
                          THEN [worker[o] EXCEPT !.overlapped = TRUE]
                          ELSE worker[o]]
  /\ stats' = Observe(stats, jobs')
  /\ UNCHANGED <<chunkVars, sideVars, dbVars, cleaner, crashes>>

\* if (!videoId) throw, outside the try block
Begin(w) ==
  /\ worker[w].pc = "begin"
  /\ SetWorker(w, IF worker[w].videoId = NoVideoId
                  THEN [worker[w] EXCEPT !.pc = "reject",
                                         !.err = "Job data must include videoId"]
                  ELSE Returned(worker[w], ""))
  /\ UNCHANGED <<chunkVars, sideVars, dbVars, jobs, stats, cleaner, crashes>>

\* const video = await Video.findById(videoId); if (!video) throw
FindVideo(w) ==
  /\ worker[w].pc = "findVideo"
  /\ \E ok \in BOOLEAN :
       SetWorker(w, IF ~ok THEN Thrown(worker[w], "findById failed")
                    ELSE IF ~VideoFound(worker[w].videoId)
                         THEN Thrown(worker[w], "Video not found: id")
                         ELSE Returned(worker[w], ""))
  /\ UNCHANGED <<chunkVars, sideVars, dbVars, jobs, stats, cleaner, crashes>>

\* generateTranscript: Video.findById
GtFindVideo(w) ==
  /\ worker[w].pc = "gtFindVideo"
  /\ \E ok \in BOOLEAN :
       SetWorker(w, IF ~ok THEN Thrown(worker[w], "findById failed")
                    ELSE IF ~VideoFound(worker[w].videoId)
                         THEN Thrown(worker[w], "Video not found")
                         ELSE Returned(worker[w], ""))
  /\ UNCHANGED <<chunkVars, sideVars, dbVars, jobs, stats, cleaner, crashes>>

\* generateTranscript: transcribeVideo, the two checks and the documents
Transcribe(w) ==
  /\ worker[w].pc = "transcribe"
  /\ \/ SetWorker(w, Thrown(worker[w], "Transcription failed"))
     \/ \E out \in ProviderOutputs :
          LET segs == processSegments(out)
              docs == TranscriptDocs(worker[w].videoId, segs)
          IN SetWorker(w,
               IF Len(segs) = 0
               THEN Thrown(worker[w], "Transcription provider returned no segments")
               ELSE IF Len(docs) = 0
                    THEN Thrown(worker[w], "No valid transcript segments to store")
                    ELSE [Returned(worker[w], "transcribed")
                            EXCEPT !.segs = docs, !.docs = docs])
  /\ UNCHANGED <<chunkVars, sideVars, dbVars, jobs, stats, cleaner, crashes>>

\* generateTranscript: await Transcript.deleteMany({ videoId: video._id })
DeleteTranscript(w) ==
  /\ worker[w].pc = "deleteTranscript"
  /\ \/ /\ SetWorker(w, Thrown(worker[w], "deleteMany failed"))
        /\ UNCHANGED transcripts
     \/ /\ transcripts' = DeleteMany(transcripts, worker[w].videoId)
        /\ SetWorker(w, Returned(worker[w], ""))
  /\ UNCHANGED <<chunkVars, sideVars, videos, chunkDocs, jobs, stats, cleaner, crashes>>

\* generateTranscript: await Transcript.insertMany(docs)
InsertTranscript(w) ==
  /\ worker[w].pc = "insertTranscript"
  /\ \/ /\ SetWorker(w, Thrown(worker[w], "insertMany failed"))
        /\ UNCHANGED transcripts
     \/ /\ transcripts' = InsertMany(transcripts, worker[w].docs)
        /\ SetWorker(w, Returned(worker[w], "segmentsPersisted"))
  /\ UNCHANGED <<chunkVars, sideVars, videos, chunkDocs, jobs, stats, cleaner, crashes>>

\* a variant of generateChunks without its two checks
Chunked_Unchecked(wr, found) ==
  [Returned(wr, "chunked")
     EXCEPT !.docs = ChunkDocsOf(wr.videoId, chunkTranscript(found))]

\* generateChunks on the segments it found: the two checks, the chunker, the
\* documents to store
Chunked(wr, found) ==
  LET chunked == chunkTranscript(found)
  IN IF Len(found) = 0
     THEN Thrown(wr, "No transcript segments found for chunking")
     ELSE IF Len(chunked) = 0
          THEN Thrown(wr, "Chunking produced no chunks")
          ELSE [Returned(wr, "chunked")
                  EXCEPT !.docs = ChunkDocsOf(wr.videoId, chunked)]

\* generateChunks: Transcript.find, chunkTranscript, the two checks and the
\* documents; where the chunks get embeddings, generateEmbeddingsBatch may
\* throw after them
FindTranscript(w) ==
  /\ worker[w].pc = "findTranscript"
  /\ \/ SetWorker(w, Thrown(worker[w], "find failed"))
     \/ \E found \in SortedFind(transcripts, worker[w].videoId) :
          \/ SetWorker(w, Chunked(worker[w], found))
          \/ /\ Chunked(worker[w], found).pc # "catch"
             /\ SetWorker(w, Thrown(worker[w], "embedding failed"))
  /\ UNCHANGED <<chunkVars, sideVars, dbVars, jobs, stats, cleaner, crashes>>

\* generateChunks: await Chunk.deleteMany({ videoId })
DeleteChunks(w) ==
  /\ worker[w].pc = "deleteChunks"
  /\ \/ /\ SetWorker(w, Thrown(worker[w], "deleteMany failed"))
        /\ UNCHANGED chunkDocs
     \/ /\ chunkDocs' = DeleteMany(chunkDocs, worker[w].videoId)
        /\ SetWorker(w, Returned(worker[w], ""))
  /\ UNCHANGED <<chunkVars, sideVars, videos, transcripts, jobs, stats, cleaner, crashes>>

\* generateChunks: await Chunk.insertMany(chunks)
InsertChunks(w) ==
  /\ worker[w].pc = "insertChunks"
  /\ \/ /\ SetWorker(w, Thrown(worker[w], "insertMany failed"))
        /\ UNCHANGED chunkDocs
     \/ /\ chunkDocs' = InsertMany(chunkDocs, worker[w].docs)
        /\ SetWorker(w, Returned(worker[w], "chunksPersisted"))
  /\ UNCHANGED <<chunkVars, sideVars, videos, transcripts, jobs, stats, cleaner, crashes>>

\* await Video.findByIdAndUpdate(videoId, { status: "ready" })
MarkReady(w) ==
  /\ worker[w].pc = "markReady"
  /\ \/ /\ SetWorker(w, Thrown(worker[w], "findByIdAndUpdate failed"))
        /\ UNCHANGED videos
     \/ /\ videos' = StatusUpdate(videos, worker[w].videoId, "ready")
        /\ SetWorker(w, [Returned(worker[w], "ready") EXCEPT !.statusWrite = "ready"])
  /\ UNCHANGED <<chunkVars, sideVars, transcripts, chunkDocs, jobs, stats, cleaner, crashes>>

\* the catch block: the update to "failed", whose own error is only logged,
\* then throw err
Catch(w) ==
  /\ worker[w].pc = "catch"
  /\ \E updateOk \in BOOLEAN :
       /\ videos' = IF updateOk
                    THEN StatusUpdate(videos, worker[w].videoId, "failed")
                    ELSE videos
       /\ SetWorker(w, [worker[w] EXCEPT
                          !.pc = "reject",
                          !.err = Rethrown(worker[w].err, updateOk),
                          !.statusWrite = IF updateOk THEN "failed"
                                          ELSE "failed, rejected"])
  /\ UNCHANGED <<chunkVars, sideVars, transcripts, chunkDocs, jobs, stats, cleaner, crashes>>

\* the promise of processor rejects: the worker moves the job to failed
Reject(w) ==
  /\ worker[w].pc = "reject"
  /\ jobs' = MoveToFinished(jobs, worker[w].job, w, "failed", worker[w].err)
  /\ SetWorker(w, IdleWorker)
  /\ stats' = Observe(stats, jobs')
  /\ UNCHANGED <<chunkVars, sideVars, dbVars, cleaner, crashes>>

\* the promise of processor resolves: the worker moves the job to completed
Resolve(w) ==
  /\ worker[w].pc = "resolve"
  /\ jobs' = [MoveToFinished(jobs, worker[w].job, w, "completed", "")
               EXCEPT ![worker[w].job].resolved = @ + 1]
  /\ SetWorker(w, IdleWorker)
  /\ stats' = Observe(stats, jobs')
  /\ UNCHANGED <<chunkVars, sideVars, dbVars, cleaner, crashes>>

\* the worker process dies and is started again; the job stays active under
\* its lock; an insertMany that was under way has stored some of its
\* documents
Crash(w) ==
  /\ Running(w)
  /\ crashes < MaxCrashes
  /\ \E k \in 0..Len(worker[w].docs) :
       /\ k > 0 => worker[w].pc \in {"insertTranscript", "insertChunks"}
       /\ k < Len(worker[w].docs) \/ k = 0
       /\ transcripts' = IF worker[w].pc = "insertTranscript"
                         THEN InsertMany(transcripts, SubSeq(worker[w].docs, 1, k))
                         ELSE transcripts
       /\ chunkDocs' = IF worker[w].pc = "insertChunks"
                       THEN InsertMany(chunkDocs, SubSeq(worker[w].docs, 1, k))
                       ELSE chunkDocs
       /\ jobs' = IF jobs[worker[w].job].lock = w
                  THEN [jobs EXCEPT ![worker[w].job].crashedAt =
                          IF k > 0 THEN "insertMany, partly stored"
                          ELSE IF worker[w].pc \in {"insertTranscript", "insertChunks"}
                               THEN "insertMany" ELSE "elsewhere"]
                  ELSE jobs
  /\ SetWorker(w, IdleWorker)
  /\ crashes' = crashes + 1
  /\ UNCHANGED <<chunkVars, sideVars, videos, stats, cleaner>>

\* BullMQ's stalled-job check finds the lock of an active job expired: the
\* worker that held it has died, or is still running without renewing it
Stall(j) ==
  /\ jobs[j].state = "active"
  /\ jobs' = MoveStalled(jobs, j)
  /\ stats' = Observe(stats, jobs')
  /\ UNCHANGED <<chunkVars, sideVars, dbVars, worker, cleaner, crashes>>

\* the chunker of part one is not stepped by the pipeline: generateChunks
\* calls it as the operator chunkTranscript
ChunkerUnused ==
  /\ segments = <<>>
  /\ i = 0
  /\ chunks = <<>>
  /\ bufferText = <<>>
  /\ bufferStart = NULL
  /\ bufferEnd = NULL
  /\ wordCount = 0
  /\ pc = "unused"
  /\ bufferSegs = <<>>
  /\ chunkSegs = <<>>

\* the server and the workers have started.  The database and the queue are
\* empty; or a video was uploaded and clear-database.js has since emptied
\* the database, its job still waiting; or the queue holds a job that
\* another producer added without a videoId
Init ==
  /\ ChunkerUnused
  /\ SideIdle
  /\ transcripts = <<>>
  /\ chunkDocs = <<>>
  /\ \E past \in {"nothing", "cleared", "no videoId"} :
       /\ videos = [v \in Vids |-> IF past = "cleared" THEN "removed" ELSE "none"]
       /\ jobs = IF past = "nothing" THEN [j \in JobIds |-> NoJob]
                 ELSE QueueAdd([j \in JobIds |-> NoJob],
                               IF past = "cleared" THEN CHOOSE v \in Vids : TRUE
                               ELSE NoVideoId)
  /\ worker = [w \in Workers |-> IdleWorker]
  /\ stats = IdleStats
  /\ cleaner = IdleCleaner
  /\ crashes = 0

Next ==
  \/ \E v \in DOMAIN videos : Upload(v)
  \/ \E w \in DOMAIN worker, j \in DOMAIN jobs : Take(w, j)
  \/ \E w \in DOMAIN worker : Begin(w)
  \/ \E w \in DOMAIN worker : FindVideo(w)
  \/ \E w \in DOMAIN worker : GtFindVideo(w)
  \/ \E w \in DOMAIN worker : Transcribe(w)
  \/ \E w \in DOMAIN worker : DeleteTranscript(w)
  \/ \E w \in DOMAIN worker : InsertTranscript(w)
  \/ \E w \in DOMAIN worker : FindTranscript(w)
  \/ \E w \in DOMAIN worker : DeleteChunks(w)
  \/ \E w \in DOMAIN worker : InsertChunks(w)
  \/ \E w \in DOMAIN worker : MarkReady(w)
  \/ \E w \in DOMAIN worker : Catch(w)
  \/ \E w \in DOMAIN worker : Reject(w)
  \/ \E w \in DOMAIN worker : Resolve(w)
  \/ \E w \in DOMAIN worker : Crash(w)
  \/ \E j \in DOMAIN jobs : Stall(j)

Spec == Init /\ [][Next]_vars

----------------------------------------------------------------------------
(* Properties of the processor *)

\* the processor of w has taken a step other than the death of its process
Stepped(w) == worker'[w].pc # worker[w].pc /\ crashes' = crashes

\* C11: for a job whose payload has a videoId, the processor gets to the
\* point where it rejects only through the update of the video to "failed",
\* issued in that step (and the video has that status when the update went
\* through); the worker that holds the job then moves it to failed; and the
\* processor gets to the point where it resolves only in the step that has
\* set the status to "ready".
C11_FailedBeforeReject ==
  [][\A w \in Workers :
       Stepped(w) =>
         /\ (worker'[w].pc = "reject" /\ worker'[w].videoId # NoVideoId) =>
              /\ worker[w].pc = "catch"
              /\ worker[w].statusWrite = "none"
              /\ worker'[w].statusWrite \in {"failed", "failed, rejected"}
              /\ (worker'[w].statusWrite = "failed"
                    /\ VideoFound(worker[w].videoId)) =>
                   videos'[worker[w].videoId] = "failed"
         /\ (worker[w].pc = "reject" /\ jobs[worker[w].job].state = "active"
               /\ jobs[worker[w].job].lock = w) =>
              /\ jobs'[worker[w].job].state = "failed"
              /\ jobs'[worker[w].job].failedReason = worker[w].err
         /\ worker'[w].pc = "resolve" =>
              /\ worker[w].pc = "markReady"
              /\ videos'[worker[w].videoId] = "ready"]_vars

\* the final status write has failed, the video has been set to "failed"
\* and the processor is about to reject
C11_Witness ==
  \E w \in Workers :
    /\ worker[w].pc = "reject"
    /\ worker[w].err = "findByIdAndUpdate failed"
    /\ worker[w].statusWrite = "failed"
    /\ videos[worker[w].videoId] = "failed"
    /\ worker[w].stages =
         <<"transcribed", "segmentsPersisted", "chunked", "chunksPersisted">>

\* C12: the catch block goes on to reject with the error it caught, whether
\* its own update of the status went through or was rejected, and that error
\* is the failure reason of the job.
C12_OriginalErrorRethrown ==
  [][\A w \in Workers :
       /\ (Stepped(w) /\ worker[w].pc = "catch") =>
            /\ worker'[w].pc = "reject"
            /\ worker'[w].err = worker[w].err
            /\ worker'[w].err # "Failed to update video status"
       /\ (Stepped(w) /\ worker[w].pc = "reject"
             /\ jobs'[worker[w].job].state = "failed"
             /\ jobs[worker[w].job].state = "active") =>
            jobs'[worker[w].job].failedReason = worker[w].err]_vars

\* insertMany has failed, the update to "failed" has failed too: the video is
\* still "processing" and the processor is about to reject with the error of
\* insertMany
C12_Witness ==
  \E w \in Workers :
    /\ worker[w].pc = "reject"
    /\ worker[w].err = "insertMany failed"
    /\ worker[w].statusWrite = "failed, rejected"
    /\ videos[worker[w].videoId] = "processing"

AllStages ==
  <<"transcribed", "segmentsPersisted", "chunked", "chunksPersisted", "ready">>

\* C13: within one execution the stages end in the order transcription,
\* persistence of the segments, chunking, persistence of the chunks, status
\* write: the chunking steps are reached only after insertMany of the segments
\* has returned, the status write only after insertMany of the chunks has
\* returned, and "ready" is written only by an execution in which all four
\* stages have returned without an error.
C13_StagesInOrder ==
  \A w \in Workers :
    /\ \E n \in 0..Len(AllStages) : worker[w].stages = SubSeq(AllStages, 1, n)
    /\ worker[w].pc \in {"findTranscript", "deleteChunks", "insertChunks"} =>
         "segmentsPersisted" \in Range(worker[w].stages)
    /\ worker[w].pc = "markReady" =>
         "chunksPersisted" \in Range(worker[w].stages)
    /\ worker[w].statusWrite = "ready" => worker[w].stages = AllStages
    /\ worker[w].pc = "resolve" => worker[w].statusWrite = "ready"

\* an execution has written "ready" after storing its segments and its chunks
C13_Witness ==
  \E w \in Workers :
    /\ worker[w].pc = "resolve"
    /\ worker[w].stages = AllStages
    /\ videos[worker[w].videoId] = "ready"
    /\ Len(transcripts) = 2
    /\ Len(chunkDocs) = 1

\* the documents of a video in a collection
OfVideo(collection, videoId) ==
  LET idx == {k \in DOMAIN collection : collection[k].videoId = videoId}
      RECURSIVE Pick(_)
      Pick(n) == IF n = 0 THEN <<>>
                 ELSE IF n \in idx THEN Append(Pick(n - 1), collection[n])
                      ELSE Pick(n - 1)
  IN Pick(Len(collection))

\* the execution of w has not run at the same time as another one of the
\* same video
Alone(w) == Running(w) /\ ~worker[w].overlapped

\* C14: an execution that does not overlap another one of the same video,
\* whatever earlier executions (complete, failed or dead in the middle of an
\* insertMany) have left in the collections, holds exactly its own segments
\* in the Transcript collection once its insertMany has returned, and when
\* it resolves the Chunk collection holds exactly its own chunks.
C14_ReplaceOnRerun ==
  \A w \in Workers :
    Alone(w) =>
      /\ worker[w].pc \in {"findTranscript", "deleteChunks", "insertChunks",
                           "markReady", "resolve"} =>
           OfVideo(transcripts, worker[w].videoId) = worker[w].segs
      /\ worker[w].pc \in {"markReady", "resolve"} =>
           OfVideo(chunkDocs, worker[w].videoId) = worker[w].docs

\* the first execution of the job died in an insertMany that had stored part
\* of its documents; the job was delivered again and the second execution
\* has stored one segment and one chunk
C14_Witness ==
  \E w \in Workers :
    /\ Alone(w)
    /\ worker[w].pc = "resolve"
    /\ jobs[worker[w].job].stalled = 1
    /\ jobs[worker[w].job].attempts = 2
    /\ jobs[worker[w].job].crashedAt = "insertMany, partly stored"
    /\ Len(transcripts) = 1
    /\ Len(chunkDocs) = 1

\* the sets of segments one execution can store for a video
RunSegments(videoId) ==
  {TranscriptDocs(videoId, processSegments(out)) : out \in ProviderOutputs}
    \ {<<>>}

\* the sets of chunks one execution can store for a video
RunChunks(videoId) ==
  UNION {{ChunkDocsOf(videoId, chunkTranscript(found)) :
            found \in SortedFind(r, videoId)} : r \in RunSegments(videoId)}

\* C15: when a job has stalled and been delivered to a second worker, and
\* both executions have run to their end without an error, the Transcript
\* collection holds the segments of exactly one execution and the Chunk
\* collection the chunks of exactly one execution.
C15_OneRunUnderOverlap ==
  \A j \in DOMAIN jobs :
    (/\ jobs[j].state = "completed"
     /\ jobs[j].resolved = 2
     /\ \A w \in Workers : ~Running(w)) =>
      /\ OfVideo(transcripts, jobs[j].videoId) \in RunSegments(jobs[j].videoId)
      /\ OfVideo(chunkDocs, jobs[j].videoId) \in RunChunks(jobs[j].videoId)

\* the processor of a worker that held the job has thrown
FailedByProcessor(j) ==
  /\ jobs[j].state = "failed"
  /\ jobs[j].failedReason # "job stalled more than allowable limit"

\* C16: a job that the queue has moved to failed because its processor threw
\* stays failed and is not executed again, and its video, once "failed",
\* keeps that status: no step of the pipeline changes either.
C16_FailedJobAndVideoStay ==
  [][\A j \in DOMAIN jobs :
       FailedByProcessor(j) =>
         /\ jobs'[j].state = "failed"
         /\ jobs'[j].attempts = jobs[j].attempts
         /\ (VideoFound(jobs[j].videoId) /\ videos[jobs[j].videoId] = "failed") =>
              videos'[jobs[j].videoId] = "failed"]_vars

----------------------------------------------------------------------------
(* Queue maintenance: getQueueStats and cleanQueue *)

\* the jobs and videos while the maintenance functions are exercised
MaxQueueJobs == 2

\* total: waiting + active + completed + failed
Total_WithoutFailed(waiting, active, completed, failed) ==
  waiting + active + completed

Total(waiting, active, completed, failed) ==
  waiting + active + completed + failed

\* videoQueue.obliterate({ force: true }): the whole queue is destroyed, the
\* jobs of every state and the id counter
Obliterate_WaitingOnly(q) ==
  [j \in DOMAIN q |-> IF q[j].state = "waiting" THEN NoJob ELSE q[j]]

Obliterate(q) == [j \in DOMAIN q |-> NoJob]

\* videoQueue.clean(0, 1000, state): the jobs of the state, whatever their age
Clean(q, state) ==
  [j \in DOMAIN q |-> IF q[j].state = state THEN NoJob ELSE q[j]]

\* cleanQueue from its first call to its return, when nothing else touches
\* the queue
CleanResult(q, removeFailed, removeCompleted) ==
  LET q1 == Obliterate(q)
      q2 == IF removeCompleted THEN Clean(q1, "completed") ELSE q1
  IN IF removeFailed THEN Clean(q2, "failed") ELSE q2

\* getQueueStats is called; its caller, the maintenance script, calls
\* getQueueStats and cleanQueue one after the other
StatsCall ==
  /\ stats.pc = "idle"
  /\ cleaner.pc = "idle"
  /\ stats' = [IdleStats EXCEPT !.pc = "getWaitingCount",
                                !.instants = {Counts(jobs)}]
  /\ UNCHANGED <<chunkVars, sideVars, dbVars, jobs, worker, cleaner, crashes>>

\* const waiting = await videoQueue.getWaitingCount()
StatsWaiting ==
  /\ stats.pc = "getWaitingCount"
  /\ stats' = [stats EXCEPT !.pc = "getActiveCount",
                            !.waiting = Count(jobs, "waiting")]
  /\ UNCHANGED <<chunkVars, sideVars, dbVars, jobs, worker, cleaner, crashes>>

\* const active = await videoQueue.getActiveCount()
StatsActive ==
  /\ stats.pc = "getActiveCount"
  /\ stats' = [stats EXCEPT !.pc = "getCompletedCount",
                            !.active = Count(jobs, "active")]
  /\ UNCHANGED <<chunkVars, sideVars, dbVars, jobs, worker, cleaner, crashes>>

\* const completed = await videoQueue.getCompletedCount()
StatsCompleted ==
  /\ stats.pc = "getCompletedCount"
  /\ stats' = [stats EXCEPT !.pc = "getFailedCount",
                            !.completed = Count(jobs, "completed")]
  /\ UNCHANGED <<chunkVars, sideVars, dbVars, jobs, worker, cleaner, crashes>>

\* const failed = await videoQueue.getFailedCount(); return { ..., total }
StatsFailed ==
  /\ stats.pc = "getFailedCount"
  /\ LET failed == Count(jobs, "failed")
     IN stats' = [stats EXCEPT
                    !.pc = "returned",
                    !.failed = failed,
                    !.total = Total(stats.waiting, stats.active,
                                    stats.completed, failed)]
  /\ UNCHANGED <<chunkVars, sideVars, dbVars, jobs, worker, cleaner, crashes>>

\* the caller has the record
StatsDone ==
  /\ stats.pc = "returned"
  /\ stats' = IdleStats
  /\ UNCHANGED <<chunkVars, sideVars, dbVars, jobs, worker, cleaner, crashes>>

\* cleanQueue(removeFailed, removeCompleted) is called
CleanCall(removeFailed, removeCompleted) ==
  /\ cleaner.pc = "idle"
  /\ stats.pc = "idle"
  /\ cleaner' = [IdleCleaner EXCEPT
                   !.pc = "obliterate",
                   !.removeFailed = removeFailed,
                   !.removeCompleted = removeCompleted,
                   !.before = [j \in DOMAIN jobs |-> jobs[j].state]]
  /\ UNCHANGED <<chunkVars, sideVars, dbVars, jobs, worker, stats, crashes>>

\* await videoQueue.obliterate({ force: true })
CleanObliterate ==
  /\ cleaner.pc = "obliterate"
  /\ jobs' = Obliterate(jobs)
  /\ cleaner' = [cleaner EXCEPT !.pc = "cleanCompleted"]
  /\ stats' = Observe(stats, jobs')
  /\ UNCHANGED <<chunkVars, sideVars, dbVars, worker, crashes>>

\* if (removeCompleted) await videoQueue.clean(0, 1000, 'completed')
CleanCompleted ==
  /\ cleaner.pc = "cleanCompleted"
  /\ jobs' = IF cleaner.removeCompleted THEN Clean(jobs, "completed") ELSE jobs
  /\ cleaner' = [cleaner EXCEPT !.pc = "cleanFailed"]
  /\ stats' = Observe(stats, jobs')
  /\ UNCHANGED <<chunkVars, sideVars, dbVars, worker, crashes>>

\* if (removeFailed) await videoQueue.clean(0, 1000, 'failed');
\* return { success: true }
CleanFailed ==
  /\ cleaner.pc = "cleanFailed"
  /\ jobs' = IF cleaner.removeFailed THEN Clean(jobs, "failed") ELSE jobs
  /\ cleaner' = [cleaner EXCEPT !.pc = "returned"]
  /\ stats' = Observe(stats, jobs')
  /\ UNCHANGED <<chunkVars, sideVars, dbVars, worker, crashes>>

\* the caller has { success: true }
CleanDone ==
  /\ cleaner.pc = "returned"
  /\ cleaner' = IdleCleaner
  /\ UNCHANGED <<chunkVars, sideVars, dbVars, jobs, worker, stats, crashes>>

\* processor(job) from its call to its end, as the queue sees it: the status
\* of the video is written, the transcript and the chunks are left out
Process(w) ==
  /\ worker[w].pc = "begin"
  /\ \E outcome \in {"resolve", "reject"} :
       /\ SetWorker(w, [worker[w] EXCEPT
                          !.pc = outcome,
                          !.err = IF outcome = "reject"
                                  THEN "Transcription failed" ELSE ""])
       /\ videos' = StatusUpdate(videos, worker[w].videoId,
                                 IF outcome = "resolve" THEN "ready" ELSE "failed")
  /\ UNCHANGED <<chunkVars, sideVars, transcripts, chunkDocs, jobs, stats, cleaner, crashes>>

\* the server and one worker have started on an empty database and an empty
\* queue
QueueInit ==
  /\ ChunkerUnused
  /\ SideIdle
  /\ videos = [v \in 1..MaxQueueJobs |-> "none"]
  /\ transcripts = <<>>
  /\ chunkDocs = <<>>
  /\ jobs = [j \in 1..MaxQueueJobs |-> NoJob]
  /\ worker = [w \in {"w1"} |-> IdleWorker]
  /\ stats = IdleStats
  /\ cleaner = IdleCleaner
  /\ crashes = 0

QueueNext ==
  \/ \E v \in DOMAIN videos : Upload(v)
  \/ \E w \in DOMAIN worker, j \in DOMAIN jobs : Take(w, j)
  \/ \E w \in DOMAIN worker : Process(w)
  \/ \E w \in DOMAIN worker : Reject(w)
  \/ \E w \in DOMAIN worker : Resolve(w)
  \/ StatsCall
  \/ StatsWaiting
  \/ StatsActive
  \/ StatsCompleted
  \/ StatsFailed
  \/ StatsDone
  \/ \E removeFailed, removeCompleted \in BOOLEAN :
       CleanCall(removeFailed, removeCompleted)
  \/ CleanObliterate
  \/ CleanCompleted
  \/ CleanFailed
  \/ CleanDone

QueueSpec == QueueInit /\ [][QueueNext]_vars

----------------------------------------------------------------------------
(* Properties of getQueueStats and cleanQueue *)

\* the record getQueueStats has returned, without total
Returned4 ==
  [waiting |-> stats.waiting, active |-> stats.active,
   completed |-> stats.completed, failed |-> stats.failed]

\* C17: in the record getQueueStats returns, total is the sum of waiting,
\* active, completed and failed of that record.
C17_TotalIsSum ==
  stats.pc = "returned" =>
    stats.total = stats.waiting + stats.active + stats.completed + stats.failed

\* a record with a failed job in it, read while the worker was at work
C17_Witness ==
  /\ stats.pc = "returned"
  /\ stats.failed = 1
  /\ stats.total >= 1
  /\ Cardinality(stats.instants) > 1

\* C18: the record getQueueStats returns holds the counts the queue had at
\* one instant of the call.
C18_PointInTime ==
  stats.pc = "returned" => Returned4 \in stats.instants

\* C19: when cleanQueue returns, the jobs that were completed when it was
\* called are still completed unless removeCompleted was set, and the jobs
\* that were failed are still failed unless removeFailed was set.
C19_FlagsKeepFinishedJobs ==
  cleaner.pc = "returned" =>
    \A j \in DOMAIN jobs :
      /\ (cleaner.before[j] = "completed" /\ ~cleaner.removeCompleted) =>
           jobs[j].state = "completed"
      /\ (cleaner.before[j] = "failed" /\ ~cleaner.removeFailed) =>
           jobs[j].state = "failed"

QueueEmpty(q) == \A j \in DOMAIN q : q[j].state = "none"

\* C20: a call of cleanQueue during which no job is added leaves the queue
\* empty when it was empty, and with all four counts 0 when both flags are
\* set; and cleaning the result of a cleaning once more, with the same
\* flags, changes nothing.
C20_CleanIdempotent ==
  /\ (cleaner.pc = "returned" /\ ~cleaner.enqueued) =>
       /\ (\A j \in DOMAIN jobs : cleaner.before[j] = "none") => QueueEmpty(jobs)
       /\ (cleaner.removeFailed /\ cleaner.removeCompleted) =>
            Counts(jobs) = [waiting |-> 0, active |-> 0,
                            completed |-> 0, failed |-> 0]
  /\ \A removeFailed, removeCompleted \in BOOLEAN :
       LET once == CleanResult(jobs, removeFailed, removeCompleted)
       IN /\ CleanResult(once, removeFailed, removeCompleted) = once
          /\ QueueEmpty(jobs) => QueueEmpty(once)

\* cleanQueue(true, true) has returned on a queue that held an active job
\* and nothing was added meanwhile
C20_Witness ==
  /\ cleaner.pc = "returned"
  /\ ~cleaner.enqueued
  /\ cleaner.removeFailed /\ cleaner.removeCompleted
  /\ \E j \in DOMAIN jobs : cleaner.before[j] = "active"
  /\ \E w \in DOMAIN worker : Running(w)

----------------------------------------------------------------------------
(* Part three: the transcription adapter.  generateTranscript, which the   *)
(* processor of part two runs as the one step Transcribe, taken apart into *)
(* the steps of transcribeVideo and the files they leave in os.tmpdir().   *)

\* bound: the calls of generateTranscript that one caller makes
MaxCalls == 2

\* one caller at a time: a worker runs one job at a time
Callers == {"w1"}

\* the steps of transcribeVideo that reach out of the process, in the order
\* of the code
AdapterSteps == <<"download", "extract", "whisper">>

\* a temp file.  Its name holds Date.now() and Math.random(): no two calls
\* write the same name
TempFile(w, n, ext) == [by |-> w, call |-> n, ext |-> ext]

\* timestamps the provider is free to return: a start below zero, an end
\* before its start
RawEarly == Raw(0 - 1, 1, <<"x">>, TRUE)

RawBackwards == Raw(3, 2, <<"y">>, TRUE)

\* what openai.audio.transcriptions.create may answer with
WhisperResponses == ProviderOutputs \cup {<<RawEarly, RawBackwards>>}

\* no call in progress.  tried, unlinkFailed, stored and before are history:
\* the steps attempted with their outcome, whether an unlink of an existing
\* file failed, the documents the call inserted, and the Transcript
\* collection as it was when the call began
IdleAdapter ==
  [pc |-> "idle", call |-> 0, videoId |-> NoVideoId,
   videoPath |-> NULL, audioPath |-> NULL, thrown |-> "",
   raw |-> <<>>, segments |-> <<>>, docs |-> <<>>,
   outcome |-> "", message |-> <<>>,
   tried |-> <<>>, unlinkFailed |-> FALSE, stored |-> <<>>, before |-> <<>>]

SetAdapter(w, ad) == adapter' = [adapter EXCEPT ![w] = ad]

Attempted(ad, step, ok) ==
  [ad EXCEPT !.tried = Append(@, [step |-> step, ok |-> ok])]

\* a variant in which a failed step is tried again
Failed_Retried(ad, step) ==
  [Attempted(ad, step, FALSE) EXCEPT !.pc = "download"]

\* an await inside the try block rejects: control passes through the catch
\* block, which rethrows, to the finally block
Failed(ad, step) ==
  [Attempted(ad, step, FALSE) EXCEPT !.pc = "finally", !.thrown = step]

\* the catch block of generateTranscript: a new error around the message of
\* the error transcribeVideo threw
Wrapped(ad) ==
  [ad EXCEPT !.pc = "done", !.outcome = "rejected",
             !.message = <<"Transcription failed: ", ad.thrown>>]

\* a throw of generateTranscript itself
GtThrown(ad, message) ==
  [ad EXCEPT !.pc = "done", !.outcome = "rejected", !.message = <<message>>]

\* [videoPath, audioPath].filter(Boolean)
ToDelete(ad) == Range(ad.videoPath) \cup Range(ad.audioPath)

\* generateTranscript(videoId) is called and looks the video up
GtCall(w, v) ==
  /\ adapter[w].pc = "idle"
  /\ adapter[w].call < MaxCalls
  /\ LET ad == [IdleAdapter EXCEPT !.call = adapter[w].call + 1, !.videoId = v,
                                   !.before = transcripts]
     IN SetAdapter(w, IF videos[v] \in {"none", "removed"}
                      THEN GtThrown(ad, "Video not found")
                      ELSE [ad EXCEPT !.pc = "download"])
  /\ UNCHANGED <<chunkVars, dbVars, jobs, worker, stats, cleaner, crashes,
                 tmpdir, summaries, requests>>

\* downloadToTempFile: the request fails and nothing is written; or the
\* stream breaks after createWriteStream has made the file, and the path is
\* lost with the rejected await; or the file is written and its path returned
Download(w) ==
  /\ adapter[w].pc = "download"
  /\ LET ad == adapter[w]
         filePath == TempFile(w, ad.call, "mp4")
     IN \E result \in {"request failed", "stream broke", "written"} :
          /\ tmpdir' = IF result = "request failed" THEN tmpdir
                       ELSE tmpdir \cup {filePath}
          /\ SetAdapter(w, IF result = "written"
                           THEN [Attempted(ad, "download", TRUE) EXCEPT
                                   !.pc = "extract",
                                   !.videoPath = Some(filePath)]
                           ELSE Failed(ad, "download"))
  /\ UNCHANGED <<chunkVars, dbVars, jobs, worker, stats, cleaner, crashes,
                 summaries, requests>>

\* audioPath is set, then ffmpeg runs: it cannot be started, or it fails
\* with part of the output written, or it writes the audio file
ExtractAudio(w) ==
  /\ adapter[w].pc = "extract"
  /\ LET audioPath == TempFile(w, adapter[w].call, "mp3")
         ad == [adapter[w] EXCEPT !.audioPath = Some(audioPath)]
     IN \E result \in {"not started", "broke", "written"} :
          /\ tmpdir' = IF result = "not started" THEN tmpdir
                       ELSE tmpdir \cup {audioPath}
          /\ SetAdapter(w, IF result = "written"
                           THEN [Attempted(ad, "extract", TRUE) EXCEPT
                                   !.pc = "whisper"]
                           ELSE Failed(ad, "extract"))
  /\ UNCHANGED <<chunkVars, dbVars, jobs, worker, stats, cleaner, crashes,
                 summaries, requests>>

\* transcribeAudioFile, then processSegments and the return
TranscribeAudioFile(w) ==
  /\ adapter[w].pc = "whisper"
  /\ \/ SetAdapter(w, Failed(adapter[w], "whisper"))
     \/ \E reply \in WhisperResponses :
          SetAdapter(w, [Attempted(adapter[w], "whisper", TRUE) EXCEPT
                           !.pc = "finally", !.raw = reply,
                           !.segments = processSegments(reply)])
  /\ UNCHANGED <<chunkVars, dbVars, jobs, worker, stats, cleaner, crashes,
                 tmpdir, summaries, requests>>

\* the finally block: every path that was assigned is unlinked, an error of
\* unlink is dropped
Finally(w) ==
  /\ adapter[w].pc = "finally"
  /\ LET ad == adapter[w]
     IN \E failed \in SUBSET ToDelete(ad) :
          /\ tmpdir' = tmpdir \ (ToDelete(ad) \ failed)
          /\ SetAdapter(w, [ad EXCEPT
                              !.pc = IF ad.thrown # "" THEN "wrap" ELSE "validate",
                              !.unlinkFailed = (failed \cap tmpdir # {})])
  /\ UNCHANGED <<chunkVars, dbVars, jobs, worker, stats, cleaner, crashes,
                 summaries, requests>>

\* transcribeVideo threw: generateTranscript throws the wrapping error
Wrap(w) ==
  /\ adapter[w].pc = "wrap"
  /\ SetAdapter(w, Wrapped(adapter[w]))
  /\ UNCHANGED <<chunkVars, dbVars, jobs, worker, stats, cleaner, crashes,
                 tmpdir, summaries, requests>>

\* a variant of generateTranscript without its two checks
Validated_Unchecked(ad) ==
  [ad EXCEPT !.pc = "deleteMany",
             !.docs = TranscriptDocs(ad.videoId, ad.segments)]

\* the two checks of generateTranscript around its own filter
Validated(ad) ==
  LET docs == TranscriptDocs(ad.videoId, ad.segments)
  IN IF Len(ad.segments) = 0
     THEN GtThrown(ad, "Transcription provider returned no segments")
     ELSE IF Len(docs) = 0
          THEN GtThrown(ad, "No valid transcript segments to store")
          ELSE [ad EXCEPT !.pc = "deleteMany", !.docs = docs]

\* transcribeVideo returned: the segments are checked and made documents
Validate(w) ==
  /\ adapter[w].pc = "validate"
  /\ SetAdapter(w, Validated(adapter[w]))
  /\ UNCHANGED <<chunkVars, dbVars, jobs, worker, stats, cleaner, crashes,
                 tmpdir, summaries, requests>>

\* Transcript.deleteMany({ videoId })
GtDeleteMany(w) ==
  /\ adapter[w].pc = "deleteMany"
  /\ \/ /\ transcripts' = DeleteMany(transcripts, adapter[w].videoId)
        /\ SetAdapter(w, [adapter[w] EXCEPT !.pc = "insertMany"])
     \/ /\ UNCHANGED transcripts
        /\ SetAdapter(w, GtThrown(adapter[w], "deleteMany failed"))
  /\ UNCHANGED <<chunkVars, videos, chunkDocs, jobs, worker, stats, cleaner,
                 crashes, tmpdir, summaries, requests>>

\* Transcript.insertMany(docs), and the return of the created documents
GtInsertMany(w) ==
  /\ adapter[w].pc = "insertMany"
  /\ \/ /\ transcripts' = InsertMany(transcripts, adapter[w].docs)
        /\ SetAdapter(w, [adapter[w] EXCEPT !.pc = "done", !.outcome = "resolved",
                                            !.stored = adapter[w].docs])
     \/ /\ UNCHANGED transcripts
        /\ SetAdapter(w, GtThrown(adapter[w], "insertMany failed"))
  /\ UNCHANGED <<chunkVars, videos, chunkDocs, jobs, worker, stats, cleaner,
                 crashes, tmpdir, summaries, requests>>

\* the caller has the result and may call again
GtSettled(w) ==
  /\ adapter[w].pc = "done"
  /\ SetAdapter(w, [IdleAdapter EXCEPT !.call = adapter[w].call])
  /\ UNCHANGED <<chunkVars, dbVars, jobs, worker, stats, cleaner, crashes,
                 tmpdir, summaries, requests>>

\* a video is stored, or was stored and has been removed; no job is running
\* on the queue side
TranscriptInit ==
  /\ ChunkerUnused
  /\ \E status \in {"processing", "removed"} : videos = [v \in Vids |-> status]
  /\ transcripts = <<>>
  /\ chunkDocs = <<>>
  /\ jobs = [j \in JobIds |-> NoJob]
  /\ worker = [w \in Workers |-> IdleWorker]
  /\ stats = IdleStats
  /\ cleaner = IdleCleaner
  /\ crashes = 0
  /\ tmpdir = {}
  /\ adapter = [w \in Callers |-> IdleAdapter]
  /\ summaries = {}
  /\ requests = <<>>

TranscriptNext ==
  \/ \E w \in DOMAIN adapter, v \in DOMAIN videos : GtCall(w, v)
  \/ \E w \in DOMAIN adapter : Download(w)
  \/ \E w \in DOMAIN adapter : ExtractAudio(w)
  \/ \E w \in DOMAIN adapter : TranscribeAudioFile(w)
  \/ \E w \in DOMAIN adapter : Finally(w)
  \/ \E w \in DOMAIN adapter : Wrap(w)
  \/ \E w \in DOMAIN adapter : Validate(w)
  \/ \E w \in DOMAIN adapter : GtDeleteMany(w)
  \/ \E w \in DOMAIN adapter : GtInsertMany(w)
  \/ \E w \in DOMAIN adapter : GtSettled(w)

TranscriptSpec == TranscriptInit /\ [][TranscriptNext]_vars

----------------------------------------------------------------------------
(* Properties of the transcription adapter *)

\* the positions of generateTranscript at which its call of transcribeVideo
\* has finished, finally block included
AfterTranscribeVideo == {"wrap", "validate", "deleteMany", "insertMany", "done"}

\* the temp files that the call in progress of caller w wrote
FilesOf(w) == {f \in tmpdir : f.by = w /\ f.call = adapter[w].call}

\* C21: once transcribeVideo has finished, on whatever exit path, none of
\* the temp files (video or audio) that this call wrote is left on disk,
\* provided no unlink of an existing file failed
C21_NoTempFileLeft ==
  \A w \in DOMAIN adapter :
    (adapter[w].pc \in AfterTranscribeVideo /\ ~adapter[w].unlinkFailed)
      => FilesOf(w) = {}

\* the steps of the call of caller w that failed
FailedSteps(w) ==
  {k \in 1..Len(adapter[w].tried) : ~adapter[w].tried[k].ok}

\* C22: in one call of generateTranscript the download, the audio
\* extraction and the speech-to-text call are attempted at most once each
\* and in this order, nothing is attempted after one of them failed, and a
\* call in which one failed ends rejected with an error that wraps the cause,
\* having stored nothing
C22_OnceAndRejected ==
  \A w \in DOMAIN adapter :
    LET ad == adapter[w]
    IN /\ Len(ad.tried) <= Len(AdapterSteps)
       /\ \A k \in 1..Len(ad.tried) : ad.tried[k].step = AdapterSteps[k]
       /\ \A k \in FailedSteps(w) : k = Len(ad.tried)
       /\ (ad.pc = "done" /\ FailedSteps(w) # {})
            => /\ ad.outcome = "rejected"
               /\ ad.message = <<"Transcription failed: ",
                                 ad.tried[Len(ad.tried)].step>>
               /\ ad.stored = <<>>

\* a call has ended in which the download succeeded and the extraction failed
C22_Witness ==
  \E w \in DOMAIN adapter :
    /\ adapter[w].pc = "done"
    /\ adapter[w].tried = <<[step |-> "download", ok |-> TRUE],
                            [step |-> "extract", ok |-> FALSE]>>
    /\ adapter[w].outcome = "rejected"

\* the provider segments that pass the test of the pipeline: start and end
\* are numbers, text is a string that is not blank
Usable(seg) == seg.typed /\ Len(Trim(seg.text)) > 0

\* document d is what the pipeline makes of provider segment seg
MadeFrom(d, seg) ==
  d.start = seg.start /\ d.end = seg.end /\ d.text = Trim(seg.text)

\* C23: every transcript document the pipeline stores was made from a
\* provider segment whose start and end are numbers and whose text is not
\* blank, its text is trimmed and not empty, and no document is made from a
\* provider segment that fails this test
C23_OnlyUsableStored ==
  /\ \A k \in DOMAIN transcripts :
       Len(transcripts[k].text) > 0 /\ Trim(transcripts[k].text) = transcripts[k].text
  /\ \A w \in DOMAIN adapter :
       LET ad == adapter[w]
       IN /\ \A k \in DOMAIN ad.stored :
               \E n \in DOMAIN ad.raw : Usable(ad.raw[n]) /\ MadeFrom(ad.stored[k], ad.raw[n])
          /\ \A n \in DOMAIN ad.raw :
               ~Usable(ad.raw[n])
                 => \A k \in DOMAIN ad.stored : ~MadeFrom(ad.stored[k], ad.raw[n])
          /\ ad.outcome = "resolved"
               => Len(ad.stored) = Cardinality({n \in DOMAIN ad.raw : Usable(ad.raw[n])})

\* a call has stored the two usable segments of a reply that also held a
\* blank one
C23_Witness ==
  \E w \in DOMAIN adapter :
    /\ adapter[w].raw = <<RawB, RawBlank, RawA>>
    /\ Len(adapter[w].stored) = 2
    /\ \A k \in DOMAIN adapter[w].stored : \E n \in DOMAIN transcripts :
         transcripts[n] = adapter[w].stored[k]

\* C24: every transcript document the pipeline stores has start >= 0 and
\* end > start, whatever timestamps the provider returned
C24_StoredTimestampsOrdered ==
  \A k \in DOMAIN transcripts :
    transcripts[k].start >= 0 /\ transcripts[k].end > transcripts[k].start

----------------------------------------------------------------------------
(* More properties of the processor *)

\* the two errors of generateChunks that say there is nothing to chunk
NoChunkErrors ==
  {"No transcript segments found for chunking", "Chunking produced no chunks"}

\* C25: when generateChunks runs and no transcript segment of the video is
\* stored, it throws; an execution in which generateChunks threw for want of
\* segments or chunks deletes and inserts no chunk, issues the update of the
\* video to "failed" (the video has that status when the update went
\* through), never the one to "ready", and rejects, and the worker that
\* holds the job moves it to failed
C25_NothingToChunkFails ==
  [][\A w \in Workers :
       Stepped(w) =>
         /\ (worker[w].pc = "findTranscript"
               /\ Len(OfVideo(transcripts, worker[w].videoId)) = 0) =>
              /\ worker'[w].pc = "catch"
              /\ worker'[w].err \in {"No transcript segments found for chunking",
                                     "find failed"}
         /\ worker[w].err \in NoChunkErrors =>
              /\ chunkDocs' = chunkDocs
              /\ "chunked" \notin Range(worker[w].stages)
              /\ worker[w].statusWrite # "ready"
              /\ worker[w].pc \in {"catch", "reject"}
              /\ worker[w].pc = "catch" =>
                   /\ worker'[w].pc = "reject"
                   /\ worker'[w].statusWrite \in {"failed", "failed, rejected"}
                   /\ worker'[w].statusWrite = "failed" =>
                        videos'[worker[w].videoId] = "failed"
              /\ (worker[w].pc = "reject" /\ jobs[worker[w].job].state = "active"
                    /\ jobs[worker[w].job].lock = w) =>
                   jobs'[worker[w].job].state = "failed"]_vars

\* generateChunks found no segment (another execution had deleted them), the
\* video has been set to "failed", no chunk is stored and the processor is
\* about to reject
C25_Witness ==
  \E w \in Workers :
    /\ worker[w].pc = "reject"
    /\ worker[w].err = "No transcript segments found for chunking"
    /\ worker[w].statusWrite = "failed"
    /\ videos[worker[w].videoId] = "failed"
    /\ chunkDocs = <<>>

----------------------------------------------------------------------------
(* Part four: POST /summary, summarizeAtTimestamp step by step *)

\* the clients that may have a request under way at the same time
Clients == {"r1", "r2"}

allowedTypes == {"short", "medium"}

NotANumber == [isNaN |-> TRUE, value |-> 0]

Seconds(n) == [isNaN |-> FALSE, value |-> n]

Body(videoId, timestamp, type) ==
  [videoId |-> videoId, timestamp |-> timestamp, type |-> type]

\* the request bodies tried: a missing videoId, a timestamp that is not a
\* number, a negative one, a type that is not allowed; a timestamp inside
\* the first chunk with either type, one on the border of the two chunks,
\* one beyond the last chunk
Bodies ==
  {Body(NoVideoId, Seconds(2), "short"), Body(1, NotANumber, "short"),
   Body(1, Seconds(0 - 1), "short"), Body(1, Seconds(2), "long"),
   Body(1, Seconds(2), "short"), Body(1, Seconds(2), "medium"),
   Body(1, Seconds(5), "short"), Body(1, Seconds(20), "short")}

\* the segments the pipeline has stored for the video: 80 words that end a
\* sentence, then one more word
StoredSegments ==
  TranscriptDocs(1, <<[start |-> 0, end |-> 5, text |-> Plain80 \o <<".">>],
                      [start |-> 5, end |-> 9, text |-> <<"b">>]>>)

\* the chunks the pipeline has stored for them
StoredChunks == ChunkDocsOf(1, chunkTranscript(StoredSegments))

\* what generateText may answer with, besides an error: a text, another
\* text for the same prompt, a text that is empty once cleaned
AITexts == {"", "summary one", "summary two"}

\* no request under way.  aiCalls and created are history: the calls of the
\* AI provider and the Summary this request has created
IdleRequest ==
  [pc |-> "idle", videoId |-> NoVideoId, timestamp |-> NotANumber, type |-> "",
   chunk |-> NULL, summary |-> NULL, summaryText |-> "",
   status |-> 0, data |-> NULL,
   hit |-> NULL, aiCalls |-> 0, created |-> NULL]

SetRequest(r, rq) == requests' = [requests EXCEPT ![r] = rq]

\* res.status(code).json(...)
Responded(rq, code, data) ==
  [rq EXCEPT !.pc = "done", !.status = code, !.data = data]

\* Chunk.findOne({ videoId, start <= t, end >= t }): the _id of a chunk is
\* its place in the collection
FindChunkAt(collection, videoId, t) ==
  {k \in DOMAIN collection :
     /\ collection[k].videoId = videoId
     /\ collection[k].start <= t
     /\ collection[k].end >= t}

\* a variant of the lookup that never finds a cached summary
FindSummary_Miss(collection, chunkId, type) == {}

\* Summary.findOne({ chunkId, type })
FindSummary(collection, chunkId, type) ==
  {s \in collection : s.chunkId = chunkId /\ s.type = type}

\* the unique index on (chunkId, type) refuses the document
Duplicate(collection, doc) ==
  \E s \in collection : s.chunkId = doc.chunkId /\ s.type = doc.type

\* the request arrives and its body is validated
SumCall(r, videoId, timestamp, type) ==
  /\ requests[r].pc = "idle"
  /\ LET rq == [IdleRequest EXCEPT !.videoId = videoId, !.timestamp = timestamp,
                                   !.type = type]
     IN SetRequest(r,
          IF videoId = NoVideoId THEN Responded(rq, 400, NULL)
          ELSE IF timestamp.isNaN \/ timestamp.value < 0
               THEN Responded(rq, 400, NULL)
          ELSE IF type \notin allowedTypes THEN Responded(rq, 400, NULL)
          ELSE [rq EXCEPT !.pc = "findChunk"])
  /\ UNCHANGED <<chunkVars, dbVars, jobs, worker, stats, cleaner, crashes,
                 tmpdir, adapter, summaries>>

\* the chunk that covers the timestamp is looked up
FindChunk(r) ==
  /\ requests[r].pc = "findChunk"
  /\ LET rq == requests[r]
         found == FindChunkAt(chunkDocs, rq.videoId, rq.timestamp.value)
     IN \/ /\ found = {}
           /\ SetRequest(r, Responded(rq, 404, NULL))
        \/ \E chunk \in found :
             SetRequest(r, [rq EXCEPT !.pc = "findSummary", !.chunk = Some(chunk)])
        \/ SetRequest(r, Responded(rq, 500, NULL))
  /\ UNCHANGED <<chunkVars, dbVars, jobs, worker, stats, cleaner, crashes,
                 tmpdir, adapter, summaries>>

\* the cache is looked up; a summary found is sent back
LookupSummary(r) ==
  /\ requests[r].pc = "findSummary"
  /\ LET rq == requests[r]
         found == FindSummary(summaries, rq.chunk[1], rq.type)
     IN \/ /\ found = {}
           /\ SetRequest(r, [rq EXCEPT !.pc = "callAI"])
        \/ \E summary \in found :
             SetRequest(r, [Responded(rq, 200, Some(summary)) EXCEPT
                              !.summary = Some(summary), !.hit = Some(summary)])
        \/ SetRequest(r, Responded(rq, 500, NULL))
  /\ UNCHANGED <<chunkVars, dbVars, jobs, worker, stats, cleaner, crashes,
                 tmpdir, adapter, summaries>>

\* callAI(chunk.text, type): it throws, or it returns the text of the model
CallAI(r) ==
  /\ requests[r].pc = "callAI"
  /\ LET rq == [requests[r] EXCEPT !.aiCalls = @ + 1]
     IN \/ SetRequest(r, Responded(rq, 500, NULL))
        \/ \E text \in AITexts :
             SetRequest(r, [rq EXCEPT !.pc = "create", !.summaryText = text])
  /\ UNCHANGED <<chunkVars, dbVars, jobs, worker, stats, cleaner, crashes,
                 tmpdir, adapter, summaries>>

\* Summary.create({ chunkId, type, summaryText }), refused for an empty
\* text (required) and for a second summary of the chunk and type (unique
\* index); then the response
CreateSummary(r) ==
  /\ requests[r].pc = "create"
  /\ LET rq == requests[r]
         doc == [chunkId |-> rq.chunk[1], type |-> rq.type,
                 summaryText |-> rq.summaryText]
     IN IF rq.summaryText = "" \/ Duplicate(summaries, doc)
        THEN /\ SetRequest(r, Responded(rq, 500, NULL))
             /\ UNCHANGED summaries
        ELSE \/ /\ summaries' = summaries \cup {doc}
                /\ SetRequest(r, [Responded(rq, 200, Some(doc)) EXCEPT
                                    !.summary = Some(doc), !.created = Some(doc)])
             \/ /\ SetRequest(r, Responded(rq, 500, NULL))
                /\ UNCHANGED summaries
  /\ UNCHANGED <<chunkVars, dbVars, jobs, worker, stats, cleaner, crashes,
                 tmpdir, adapter>>

\* the client has the response and may ask again
SumSettled(r) ==
  /\ requests[r].pc = "done"
  /\ SetRequest(r, IdleRequest)
  /\ UNCHANGED <<chunkVars, dbVars, jobs, worker, stats, cleaner, crashes,
                 tmpdir, adapter, summaries>>

\* a video has been processed: its chunks are stored, no summary is
SummaryInit ==
  /\ ChunkerUnused
  /\ videos = [v \in Vids |-> "ready"]
  /\ transcripts = StoredSegments
  /\ chunkDocs = StoredChunks
  /\ jobs = [j \in JobIds |-> NoJob]
  /\ worker = [w \in Workers |-> IdleWorker]
  /\ stats = IdleStats
  /\ cleaner = IdleCleaner
  /\ crashes = 0
  /\ tmpdir = {}
  /\ adapter = <<>>
  /\ summaries = {}
  /\ requests = [r \in Clients |-> IdleRequest]

SummaryNext ==
  \/ \E r \in DOMAIN requests, body \in Bodies :
       SumCall(r, body.videoId, body.timestamp, body.type)
  \/ \E r \in DOMAIN requests : FindChunk(r)
  \/ \E r \in DOMAIN requests : LookupSummary(r)
  \/ \E r \in DOMAIN requests : CallAI(r)
  \/ \E r \in DOMAIN requests : CreateSummary(r)
  \/ \E r \in DOMAIN requests : SumSettled(r)

SummarySpec == SummaryInit /\ [][SummaryNext]_vars

----------------------------------------------------------------------------
(* Properties of summarizeAtTimestamp *)

\* the stored summaries of a chunk and a type
SummariesOf(chunkId, type) ==
  {s \in summaries : s.chunkId = chunkId /\ s.type = type}

----------------------------------------------------------------------------
(* The producer side of the queue: videoQueue.add as any importer of the   *)
(* queue may call it                                                       *)

\* the job names tried: the one uploadVideo uses and one no code knows
JobNames == {"process-video", "resize-video"}

\* videoQueue.add(name, { videoId }), or videoQueue.add(name, {}): BullMQ
\* stores the job under whatever name and data it is given
Enqueue(name, videoId) ==
  /\ NextJobId(jobs) # NoJobId
  /\ jobs' = [QueueAdd(jobs, videoId) EXCEPT ![NextJobId(jobs)].name = name]
  /\ stats' = Observe(stats, jobs')
  /\ cleaner' = Noted(cleaner, TRUE)
  /\ UNCHANGED <<chunkVars, sideVars, dbVars, worker, crashes>>

\* the server and one worker have started on an empty database and an empty
\* queue
ProducerInit ==
  /\ ChunkerUnused
  /\ SideIdle
  /\ videos = [v \in Vids |-> "none"]
  /\ transcripts = <<>>
  /\ chunkDocs = <<>>
  /\ jobs = [j \in JobIds |-> NoJob]
  /\ worker = [w \in {"w1"} |-> IdleWorker]
  /\ stats = IdleStats
  /\ cleaner = IdleCleaner
  /\ crashes = 0

ProducerNext ==
  \/ \E name \in JobNames, videoId \in {NoVideoId} \cup Vids : Enqueue(name, videoId)
  \/ \E v \in DOMAIN videos : Upload(v)
  \/ \E w \in DOMAIN worker, j \in DOMAIN jobs : Take(w, j)
  \/ \E w \in DOMAIN worker : Begin(w)
  \/ \E w \in DOMAIN worker : FindVideo(w)
  \/ \E w \in DOMAIN worker : GtFindVideo(w)
  \/ \E w \in DOMAIN worker : Transcribe(w)
  \/ \E w \in DOMAIN worker : DeleteTranscript(w)
  \/ \E w \in DOMAIN worker : InsertTranscript(w)
  \/ \E w \in DOMAIN worker : FindTranscript(w)
  \/ \E w \in DOMAIN worker : DeleteChunks(w)
  \/ \E w \in DOMAIN worker : InsertChunks(w)
  \/ \E w \in DOMAIN worker : MarkReady(w)
  \/ \E w \in DOMAIN worker : Catch(w)
  \/ \E w \in DOMAIN worker : Reject(w)
  \/ \E w \in DOMAIN worker : Resolve(w)

ProducerSpec == ProducerInit /\ [][ProducerNext]_vars

\* C27: a job with an unknown name or without a videoId is refused when it
\* is added: no such job is ever in the queue, in any state, and no worker
\* ever runs one
C27_OnlyValidJobsQueued ==
  /\ \A j \in DOMAIN jobs :
       jobs[j].state # "none" =>
         jobs[j].name = "process-video" /\ jobs[j].videoId # NoVideoId
  /\ \A w \in DOMAIN worker :
       Running(w) =>
         jobs[worker[w].job].name = "process-video" /\ worker[w].videoId # NoVideoId

----------------------------------------------------------------------------
(* The pipeline with a worker that keeps running *)

\* the catch block when its update of the status goes through
CatchWritten(w) == Catch(w) /\ worker'[w].statusWrite = "failed"

\* the next step of the processor run by worker w, or the report of its end
\* to the queue
WorkerStep(w) ==
  \/ Begin(w)
  \/ FindVideo(w)
  \/ GtFindVideo(w)
  \/ Transcribe(w)
  \/ DeleteTranscript(w)
  \/ InsertTranscript(w)
  \/ FindTranscript(w)
  \/ DeleteChunks(w)
  \/ InsertChunks(w)
  \/ MarkReady(w)
  \/ CatchWritten(w)
  \/ Reject(w)
  \/ Resolve(w)

\* no worker process dies, no lock expires, the update to "failed" is never
\* refused
LiveNext ==
  \/ \E v \in DOMAIN videos : Upload(v)
  \/ \E w \in DOMAIN worker, j \in DOMAIN jobs : Take(w, j)
  \/ \E w \in DOMAIN worker : WorkerStep(w)

\* every await of a running processor settles, and the worker then goes on
LiveSpec ==
  /\ Init
  /\ [][LiveNext]_vars
  /\ \A w \in Workers : WF_vars(WorkerStep(w))

\* C28: with workers that keep running, awaits that all settle and status
\* updates that go through, a job that is active for a stored video is
\* eventually completed or failed with the video "ready" or "failed"
C28_RunToCompletion ==
  \A j \in JobIds, v \in Vids :
    (jobs[j].state = "active" /\ jobs[j].videoId = v
       /\ videos[v] \in {"processing", "ready", "failed"})
      ~> (jobs[j].state \in {"completed", "failed"}
            /\ videos[v] \in {"ready", "failed"})

\* a job that was taken once has failed and its video is "failed"
C28_Witness ==
  \E j \in DOMAIN jobs :
    /\ jobs[j].state = "failed"
    /\ jobs[j].attempts = 1
    /\ jobs[j].videoId # NoVideoId
    /\ videos[jobs[j].videoId] = "failed"

----------------------------------------------------------------------------
(* More properties of the chunker *)

\* C29: in an iteration of the loop on a segment that is followed by a gap
\* of more than 2 s, a chunk is pushed exactly when the words buffered with
\* it are at least 80; a gap of exactly 2 s or less, and the end of the
\* input, do not count as a pause: there a chunk is pushed only for 140
\* words, or for 80 words with a topic phrase or the end of a sentence
C29_LongPauseStrict ==
  [][ (pc = "loop" /\ i' = i + 1) =>
        LET n == i + 1
            W == SumTokens(segments, bufferSegs) + TokenCount(segments[n].text)
            pushed == Len(chunks') = Len(chunks) + 1
            topic == \E p \in TOPIC_PHRASES : ContainsIgnoringCase(segments[n].text, p)
            sentence == EndsWithOneOf(segments[n].text, {".", "!", "?"})
        IN IF n < Len(segments) /\ segments[n + 1].start - segments[n].end > 2
           THEN pushed <=> W >= 80
           ELSE pushed <=> (W >= 140 \/ (W >= 80 /\ (topic \/ sentence))) ]_vars

\* 80 words or more are buffered, below 140, the segment just taken is
\* followed by a gap of exactly 2 s and carries no other signal, and no
\* chunk has been pushed
C29_Witness ==
  /\ pc = "loop"
  /\ 0 < i /\ i < Len(segments)
  /\ segments[i + 1].start - segments[i].end = 2
  /\ wordCount >= 80 /\ wordCount < 140
  /\ chunks = <<>>
  /\ ~EndsWithOneOf(segments[i].text, {".", "!", "?"})
  /\ \A p \in TOPIC_PHRASES : ~ContainsIgnoringCase(segments[i].text, p)

----------------------------------------------------------------------------
(* The chunker on a transcript of equal segments without any signal *)

\* bound: the segments of such a transcript
MaxUniformSegs == 15

\* the words per segment tried
UniformWords == {1, 10, 35, 47, 70, 80, 140, 141}

\* n segments of w words "a" each, every one starting when the one before
\* it ends
Uniform(w, n) == [k \in 1..n |-> [start |-> k - 1, end |-> k, text |-> Rep(w)]]

UniformInit ==
  /\ \E w \in UniformWords, n \in 0..MaxUniformSegs : segments = Uniform(w, n)
  /\ i = 0
  /\ chunks = <<>>
  /\ bufferText = <<>>
  /\ bufferStart = NULL
  /\ bufferEnd = NULL
  /\ wordCount = 0
  /\ pc = "loop"
  /\ bufferSegs = <<>>
  /\ chunkSegs = <<>>
  /\ PipeIdle

UniformSpec == UniformInit /\ [][ChunkNext]_vars

\* the least k with k * b >= a
Ceil(a, b) == (a + b - 1) \div b

\* C30: on a transcript whose segments have w words each and carry no long
\* pause, topic phrase or sentence end, every chunk that is not the last one
\* returned is made of exactly ceil(140 / w) consecutive segments, the c-th
\* one starting right after the (c - 1)-th; for w = 10 the first chunk is
\* segments 1 to 14 and has 140 words
C30_ForcedSplit ==
  segments # <<>> =>
    LET w == TokenCount(segments[1].text)
        k == Ceil(140, w)
    IN \A c \in 1..Len(chunks) :
         (c < Len(chunks) \/ pc = "loop") =>
           /\ Constituents(c) = [m \in 1..k |-> (c - 1) * k + m]
           /\ chunks[c].wordCount = k * w
           /\ (w = 10 /\ c = 1) =>
                /\ LastOf(Constituents(c)) = 14
                /\ chunks[c].wordCount = 140
                /\ TokenCount(chunks[c].text) = 140

\* the 15th segment of ten words is buffered after a first chunk that ends
\* with the 14th
C30_Witness ==
  /\ Len(segments) = 15
  /\ TokenCount(segments[1].text) = 10
  /\ i = 15
  /\ Len(chunks) = 1
  /\ Len(Constituents(1)) = 14
  /\ bufferSegs = <<15>>

----------------------------------------------------------------------------
(* The chunker on segments of any text, blank ones included *)

\* the texts tried: the empty string, whitespace only, a padded word, 79 words
AnyTexts == {<<>>, <<" ", "\t">>, Short, Plain79}

\* the transcript with these texts, every segment starting when the one
\* before it ends
WithTexts(texts) ==
  [k \in DOMAIN texts |-> [start |-> k - 1, end |-> k, text |-> texts[k]]]

AnyTextInit ==
  /\ \E n \in 0..MaxSegs : \E texts \in [1..n -> AnyTexts] :
       segments = WithTexts(texts)
  /\ i = 0
  /\ chunks = <<>>
  /\ bufferText = <<>>
  /\ bufferStart = NULL
  /\ bufferEnd = NULL
  /\ wordCount = 0
  /\ pc = "loop"
  /\ bufferSegs = <<>>
  /\ chunkSegs = <<>>
  /\ PipeIdle

AnyTextSpec == AnyTextInit /\ [][ChunkNext]_vars

\* C31: the word count of the buffer, and the one every chunk carries, is
\* the number of whitespace-delimited tokens of the trimmed texts of the
\* segments it was built from, a blank text counting zero
C31_WordCountIsTokens ==
  /\ wordCount = SumTokens(segments, bufferSegs)
  /\ \A c \in 1..Len(chunks) :
       chunks[c].wordCount = SumTokens(segments, Constituents(c))

----------------------------------------------------------------------------
(* Frame conditions of the pipeline stages *)

\* the errors generateChunks throws before its deleteMany
BeforeDeleteChunks ==
  NoChunkErrors \cup {"find failed", "embedding failed"}

\* C32: a step of an execution changes the chunks stored for its video only
\* in the deleteMany and insertMany of generateChunks, which come after the
\* chunks (and their embeddings) were made; the step of generateChunks that
\* finds, chunks and embeds changes none, nor does any later step of an
\* execution in which it threw
C32_ChunksKeptOnEarlyFailure ==
  [][\A w \in Workers :
       Stepped(w) =>
         /\ OfVideo(chunkDocs', worker[w].videoId)
              # OfVideo(chunkDocs, worker[w].videoId) =>
              /\ worker[w].pc \in {"deleteChunks", "insertChunks"}
              /\ "chunked" \in Range(worker[w].stages)
              /\ worker[w].err = ""
         /\ (worker[w].pc = "findTranscript" \/ worker[w].err \in BeforeDeleteChunks) =>
              chunkDocs' = chunkDocs]_vars

\* generateChunks has thrown before its deleteMany in a second execution of
\* the job, and the chunks of the first execution are all still stored
C32_Witness ==
  \E w \in Workers :
    /\ worker[w].pc = "reject"
    /\ worker[w].err \in BeforeDeleteChunks
    /\ jobs[worker[w].job].attempts = 2
    /\ OfVideo(chunkDocs, worker[w].videoId) # <<>>

\* the messages generateTranscript throws before its deleteMany, for a
\* caller whose call has ended
EndedEarly(ad) ==
  /\ ad.pc = "done"
  /\ ad.outcome = "rejected"
  /\ \/ ad.message \in {<<"Video not found">>,
                        <<"Transcription provider returned no segments">>,
                        <<"No valid transcript segments to store">>}
     \/ \E step \in Range(AdapterSteps) :
          ad.message = <<"Transcription failed: ", step>>

\* C33: a call of generateTranscript changes the stored segments only in its
\* deleteMany and insertMany, reached with at least one valid segment to
\* store and no error thrown; and when a call ends because the video was
\* not found, the transcription failed or no valid segment was left, the
\* stored segments are what they were when it began
C33_SegmentsKeptOnEarlyFailure ==
  [][\A w \in DOMAIN adapter :
       adapter'[w] # adapter[w] =>
         /\ transcripts' # transcripts =>
              /\ adapter[w].pc \in {"deleteMany", "insertMany"}
              /\ Len(adapter[w].docs) > 0
              /\ \A k \in DOMAIN adapter[w].docs :
                   \E n \in DOMAIN adapter[w].raw :
                     Usable(adapter[w].raw[n]) /\ MadeFrom(adapter[w].docs[k], adapter[w].raw[n])
              /\ adapter[w].thrown = ""
         /\ EndedEarly(adapter'[w]) => transcripts' = adapter'[w].before]_vars

\* a second call has ended with a failed download and the segments the
\* first call stored are still there
C33_Witness ==
  \E w \in DOMAIN adapter :
    /\ adapter[w].call = 2
    /\ adapter[w].pc = "done"
    /\ adapter[w].message = <<"Transcription failed: ", "download">>
    /\ transcripts # <<>>
    /\ transcripts = adapter[w].before

----------------------------------------------------------------------------
(* The upload controller, await by await *)

\* the clients that upload at the same time
Uploaders == {"u1", "u2"}

\* the videos and the jobs there is room for while uploads are followed
UploadIds == {1, 2}

\* a variant of uploadVideo that answers before it enqueues
UploadOrder_RespondFirst ==
  <<"duration", "cloudinary", "create", "respond", "enqueue", "done">>

\* the awaits of uploadVideo after its two checks, in order
UploadOrder ==
  <<"duration", "cloudinary", "create", "enqueue", "respond", "done">>

UpAfter(step) ==
  LET k == CHOOSE n \in DOMAIN UploadOrder : UploadOrder[n] = step
  IN UploadOrder[k + 1]

\* no upload under way.  video is the _id Video.create returned; enqueued is
\* history: the videoId given to videoQueue.add when it resolved
IdleUpload ==
  [pc |-> "idle", video |-> NoVideoId, status |-> 0, data |-> NULL,
   enqueued |-> NULL]

\* the catch block of uploadVideo
UpFailed(rq) == [rq EXCEPT !.pc = "done", !.status = 500]

\* the _id a new document is given
NewVideoId(vs) == CHOOSE v \in DOMAIN vs : vs[v] = "none" /\ \A o \in DOMAIN vs : vs[o] = "none" => v <= o

\* POST /upload arrives: the two checks of the request
UpCall(u, file, title) ==
  /\ requests[u].pc = "idle"
  /\ \E v \in DOMAIN videos : videos[v] = "none"
  /\ SetRequest(u, IF ~file \/ ~title
                   THEN [IdleUpload EXCEPT !.pc = "done", !.status = 400]
                   ELSE [IdleUpload EXCEPT !.pc = UploadOrder[1]])
  /\ UNCHANGED <<chunkVars, dbVars, jobs, worker, stats, cleaner, crashes,
                 tmpdir, adapter, summaries>>

\* await getVideoDuration(videoFile.path), answered with 500 when it fails
UpDuration(u) ==
  /\ requests[u].pc = "duration"
  /\ \/ SetRequest(u, UpFailed(requests[u]))
     \/ SetRequest(u, [requests[u] EXCEPT !.pc = UpAfter("duration")])
  /\ UNCHANGED <<chunkVars, dbVars, jobs, worker, stats, cleaner, crashes,
                 tmpdir, adapter, summaries>>

\* await cloudinary.uploader.upload(...)
UpCloudinary(u) ==
  /\ requests[u].pc = "cloudinary"
  /\ \/ SetRequest(u, UpFailed(requests[u]))
     \/ SetRequest(u, [requests[u] EXCEPT !.pc = UpAfter("cloudinary")])
  /\ UNCHANGED <<chunkVars, dbVars, jobs, worker, stats, cleaner, crashes,
                 tmpdir, adapter, summaries>>

\* await Video.create({ ..., status: "processing" })
UpCreate(u) ==
  /\ requests[u].pc = "create"
  /\ \/ /\ SetRequest(u, UpFailed(requests[u]))
        /\ UNCHANGED videos
     \/ /\ \E v \in DOMAIN videos : videos[v] = "none"
        /\ videos' = [videos EXCEPT ![NewVideoId(videos)] = "processing"]
        /\ SetRequest(u, [requests[u] EXCEPT !.pc = UpAfter("create"),
                                             !.video = NewVideoId(videos)])
  /\ UNCHANGED <<chunkVars, transcripts, chunkDocs, jobs, worker, stats, cleaner,
                 crashes, tmpdir, adapter, summaries>>

\* await videoQueue.add("process-video", { videoId: video._id.toString() })
UpEnqueue(u) ==
  /\ requests[u].pc = "enqueue"
  /\ NextJobId(jobs) # NoJobId
  /\ \/ /\ SetRequest(u, UpFailed(requests[u]))
        /\ UNCHANGED <<jobs, stats, cleaner>>
     \/ /\ jobs' = QueueAdd(jobs, requests[u].video)
        /\ stats' = Observe(stats, jobs')
        /\ cleaner' = Noted(cleaner, TRUE)
        /\ SetRequest(u, [requests[u] EXCEPT !.pc = UpAfter("enqueue"),
                                             !.enqueued = Some(requests[u].video)])
  /\ UNCHANGED <<chunkVars, dbVars, worker, crashes, tmpdir, adapter, summaries>>

\* return res.status(201).json({ message, data: video })
UpRespond(u) ==
  /\ requests[u].pc = "respond"
  /\ SetRequest(u, [requests[u] EXCEPT !.pc = UpAfter("respond"), !.status = 201,
                                       !.data = Some(requests[u].video)])
  /\ UNCHANGED <<chunkVars, dbVars, jobs, worker, stats, cleaner, crashes,
                 tmpdir, adapter, summaries>>

\* the client has its answer
UpSettled(u) ==
  /\ requests[u].pc = "done"
  /\ SetRequest(u, IdleUpload)
  /\ UNCHANGED <<chunkVars, dbVars, jobs, worker, stats, cleaner, crashes,
                 tmpdir, adapter, summaries>>

\* the server and one worker have started on an empty database and an empty
\* queue
UploadInit ==
  /\ ChunkerUnused
  /\ videos = [v \in UploadIds |-> "none"]
  /\ transcripts = <<>>
  /\ chunkDocs = <<>>
  /\ jobs = [j \in UploadIds |-> NoJob]
  /\ worker = [w \in {"w1"} |-> IdleWorker]
  /\ stats = IdleStats
  /\ cleaner = IdleCleaner
  /\ crashes = 0
  /\ tmpdir = {}
  /\ adapter = <<>>
  /\ summaries = {}
  /\ requests = [u \in Uploaders |-> IdleUpload]

UploadNext ==
  \/ \E u \in DOMAIN requests, file, title \in BOOLEAN : UpCall(u, file, title)
  \/ \E u \in DOMAIN requests : UpDuration(u)
  \/ \E u \in DOMAIN requests : UpCloudinary(u)
  \/ \E u \in DOMAIN requests : UpCreate(u)
  \/ \E u \in DOMAIN requests : UpEnqueue(u)
  \/ \E u \in DOMAIN requests : UpRespond(u)
  \/ \E u \in DOMAIN requests : UpSettled(u)
  \/ \E w \in DOMAIN worker, j \in DOMAIN jobs : Take(w, j)
  \/ \E w \in DOMAIN worker : Process(w)
  \/ \E w \in DOMAIN worker : Reject(w)
  \/ \E w \in DOMAIN worker : Resolve(w)

UploadSpec == UploadInit /\ [][UploadNext]_vars

\* C34: every job in the queue references a Video that has been created, a
\* job no worker has taken yet references a Video whose status is still
\* "processing", and an upload answered with 201 has had its job for the
\* video it created accepted by the queue
C34_UploadOrdering ==
  /\ \A j \in DOMAIN jobs :
       jobs[j].state # "none" =>
         /\ jobs[j].videoId \in DOMAIN videos
         /\ videos[jobs[j].videoId] # "none"
         /\ jobs[j].attempts = 0 => videos[jobs[j].videoId] = "processing"
  /\ \A u \in DOMAIN requests :
       requests[u].status = 201 =>
         /\ requests[u].video # NoVideoId
         /\ requests[u].enqueued = Some(requests[u].video)
         /\ \E j \in DOMAIN jobs :
              jobs[j].state # "none" /\ jobs[j].videoId = requests[u].video

\* an upload has been answered with 201 while its job is still waiting
C34_Witness ==
  \E u \in DOMAIN requests, j \in DOMAIN jobs :
    /\ requests[u].status = 201
    /\ jobs[j].state = "waiting"
    /\ jobs[j].videoId = requests[u].video
    /\ videos[requests[u].video] = "processing"

----------------------------------------------------------------------------
(* The pipeline and the records of the database *)

\* C35: a step of the processor for a job without a videoId, or with a
\* videoId no Video has, leaves the Video, Transcript and Chunk collections
\* as they are, never gets to the point where the processor resolves, and
\* the job is never moved to completed
C35_BadJobTouchesNothing ==
  [][\A w \in Workers :
       (Stepped(w) /\ Running(w) /\ ~VideoFound(worker[w].videoId)) =>
         /\ dbVars' = dbVars
         /\ worker'[w].pc # "resolve"
         /\ jobs'[worker[w].job].state # "completed"]_vars

\* the job of a video that is no longer there has failed after the attempt
\* to write the status "failed"
C35_Witness ==
  \E j \in DOMAIN jobs :
    /\ jobs[j].state = "failed"
    /\ jobs[j].failedReason = "Video not found: id"
    /\ videos[jobs[j].videoId] = "removed"
    /\ transcripts = <<>>
    /\ chunkDocs = <<>>

\* the videos uploaded before two workers start on their jobs
PairIds == {1, 2}

\* two videos have been uploaded, the job of each is waiting, two workers
\* have started
PairInit ==
  /\ ChunkerUnused
  /\ SideIdle
  /\ videos = [v \in PairIds |-> "processing"]
  /\ transcripts = <<>>
  /\ chunkDocs = <<>>
  /\ jobs = [j \in PairIds |-> [NoJob EXCEPT !.state = "waiting",
                                             !.name = "process-video",
                                             !.videoId = j]]
  /\ worker = [w \in Workers |-> IdleWorker]
  /\ stats = IdleStats
  /\ cleaner = IdleCleaner
  /\ crashes = 0

PairNext ==
  \/ \E w \in DOMAIN worker, j \in DOMAIN jobs : Take(w, j)
  \/ \E w \in DOMAIN worker : Begin(w)
  \/ \E w \in DOMAIN worker : FindVideo(w)
  \/ \E w \in DOMAIN worker : GtFindVideo(w)
  \/ \E w \in DOMAIN worker : Transcribe(w)
  \/ \E w \in DOMAIN worker : DeleteTranscript(w)
  \/ \E w \in DOMAIN worker : InsertTranscript(w)
  \/ \E w \in DOMAIN worker : FindTranscript(w)
  \/ \E w \in DOMAIN worker : DeleteChunks(w)
  \/ \E w \in DOMAIN worker : InsertChunks(w)
  \/ \E w \in DOMAIN worker : MarkReady(w)
  \/ \E w \in DOMAIN worker : Catch(w)
  \/ \E w \in DOMAIN worker : Reject(w)
  \/ \E w \in DOMAIN worker : Resolve(w)

PairSpec == PairInit /\ [][PairNext]_vars

\* C36: a step of the processor of a job for video V leaves the segments,
\* the chunks and the status of every other video as they are
C36_JobIsolation ==
  [][\A w \in Workers :
       Stepped(w) =>
         \A v \in DOMAIN videos \ {worker[w].videoId, worker'[w].videoId} :
           /\ OfVideo(transcripts', v) = OfVideo(transcripts, v)
           /\ OfVideo(chunkDocs', v) = OfVideo(chunkDocs, v)
           /\ videos'[v] = videos[v]]_vars

\* one worker is replacing the chunks of its video while the other video is
\* ready with its segments and chunks stored
C36_Witness ==
  \E w \in Workers, v \in DOMAIN videos :
    /\ worker[w].pc = "insertChunks"
    /\ v # worker[w].videoId
    /\ videos[v] = "ready"
    /\ OfVideo(transcripts, v) # <<>>
    /\ OfVideo(chunkDocs, v) # <<>>
    /\ OfVideo(transcripts, worker[w].videoId) # <<>>

C38_ReadyMeansChunked ==
  \A v \in DOMAIN videos :
    videos[v] = "ready" =>
      /\ OfVideo(chunkDocs, v) # <<>>
      /\ \E found \in SortedFind(transcripts, v) :
           OfVideo(chunkDocs, v) = ChunkDocsOf(v, chunkTranscript(found))

\* C39: a video whose status is "processing" has a job that references it
\* and is waiting or active
C39_NoVideoStranded ==
  \A v \in DOMAIN videos :
    videos[v] = "processing" =>
      \E j \in DOMAIN jobs :
        /\ jobs[j].videoId = v
        /\ jobs[j].state \in {"waiting", "active"}

\* C40: a request that missed the cache, got a text from the AI provider and
\* comes to Summary.create when another request has meanwhile stored the
\* summary of the same chunk and type responds 200 with that stored summary,
\* and the chunk and type still have exactly one Summary
C40_ConcurrentMissesAgree ==
  [][\A r \in Clients :
       LET rq == requests[r]
           after == requests'[r]
       IN (/\ after # rq
           /\ rq.pc = "create"
           /\ rq.summaryText # ""
           /\ SummariesOf(rq.chunk[1], rq.type) # {}) =>
            /\ after.status = 200
            /\ after.data # NULL
            /\ after.data[1] \in SummariesOf(rq.chunk[1], rq.type)
            /\ Cardinality(SummariesOf(rq.chunk[1], rq.type)') = 1]_vars

====
